---- MODULE Spec2Model ----
(***************************************************************************)
(* Model of the incremental generation pipeline of recursive_cleaner:      *)
(* DataCleaner (cleaner.py), the validator (validation.py), the response   *)
(* parser (response.py), the chunker (parsers.py) and the output generator *)
(* (output.py).  One process at a time runs the pipeline; it can exit at   *)
(* any step, and a later process can be started on the same disk.          *)
(***************************************************************************)
EXTENDS Integers, Sequences, FiniteSets, TLC

(***************************************************************************)
(* Bounds of the model.                                                    *)
(***************************************************************************)
MaxRuns == 2           \* processes started one after the other
MaxIter == 1           \* largest max_iterations a caller configures; the backend
                       \* ends a chunk at the latest on call MaxIter + 1
MaxFunctions == 2      \* the backend stops proposing code at this many accepted functions
MaxLines == 3          \* lines, rows or items of a file given to the chunker on its own
MaxExtraCalls == 4     \* calls a backend could answer beyond those call_llm makes

(***************************************************************************)
(* Program constants.                                                      *)
(***************************************************************************)
STATE_VERSION == "0.3.0"
STORE_STATE_VERSION == "0.5.0"
DEFAULT_MAX_ITERATIONS == 5
MAX_SAMPLES == 3
CHARS_PER_ITEM == 80       \* characters of a text chunk per unit of chunk_size
STOP_AFTER_ATTEMPT == 3    \* attempts of one call_llm

(***************************************************************************)
(* Inputs.  A record of a .jsonl file is GoodRec or BadRec; BadRec is the  *)
(* record on which the code "raise2" raises.  A line can also be blank, or *)
(* hold something that is not a JSON object (ScalarLine).  HeaderRow is    *)
(* the first row of a .csv file, ObjectDoc a .json file that holds one     *)
(* object, Char a character of a text that is not white space.             *)
(***************************************************************************)
GoodRec == "good"
BadRec == "bad"
BlankLine == ""
ScalarLine == "scalar"
HeaderRow == "header"
ObjectDoc == "object"
Char == "x"
Paths == {"a.jsonl", "b.jsonl"}
\* The long file has one record more than the validator samples, the last one bad.
ChunkSizes == {2, MAX_SAMPLES + 1}
LongFile == [k \in 1..(MAX_SAMPLES + 1) |-> IF k > MAX_SAMPLES THEN BadRec ELSE GoodRec]
ShortFile == <<GoodRec, BadRec>>
BlankFile == <<BlankLine, BlankLine>>
ContentPool == {<<>>, BlankFile, ShortFile, LongFile}

Min(x, y) == IF x < y THEN x ELSE y

(***************************************************************************)
(* Generated code, by what it does.                                        *)
(*   "ok"      defines the function, never raises                          *)
(*   "raise2"  defines the function, raises on BadRec                      *)
(*   "tryimp"  as "ok", with its import inside a try block                 *)
(*   "bump"    defines the function, never raises, and changes a record    *)
(*             each time it is applied to it                               *)
(*   "nodef"   does not define the named function                          *)
(*   "nonstr"  defines the function, returns a non-string                  *)
(*   "syntax"  is not valid Python                                         *)
(*   "mainref" contains __main__                                           *)
(*   ""        no code                                                     *)
(***************************************************************************)
CodeParses(code) == code # "syntax"
CodeDefines(code) == code \in {"ok", "raise2", "tryimp", "mainref", "nonstr", "bump"}
CodeRaisesOn(code, rec) == code = "raise2" /\ rec = BadRec
CodeMergeable(code) == code \notin {"tryimp", "syntax"}

Fn(name, code) == [name |-> name, code |-> code]
NoFeedback == [kind |-> "none", detail |-> "", sample |-> 0]
Feedback(kind, detail, sample) == [kind |-> kind, detail |-> detail, sample |-> sample]

(***************************************************************************)
(* Documents on disk.  A checkpoint is the JSON document _save_state       *)
(* writes; "partial" is a document whose write has not finished and        *)
(* "corrupt" one that json.load rejects.                                   *)
(***************************************************************************)
NoFile ==
    [kind |-> "none", version |-> "", file_path |-> "", chunk_size |-> 0,
     last_completed_chunk |-> -1, total_chunks |-> 0, functions |-> <<>>]
PartialFile == [NoFile EXCEPT !.kind = "partial"]
CorruptFile == [NoFile EXCEPT !.kind = "corrupt"]
\* A JSON object that has no "file_path" member.
NoPathFile == [NoFile EXCEPT !.kind = "nopath"]
CheckpointDoc(ver, path, cs, l, t, fns) ==
    [kind |-> "ckpt", version |-> ver, file_path |-> path, chunk_size |-> cs,
     last_completed_chunk |-> l, total_chunks |-> t, functions |-> fns]

NoOutput == [kind |-> "none", functions |-> <<>>]
OutputDoc(fns) == [kind |-> "file", functions |-> fns]

(***************************************************************************)
(* A pure function applied on its own: the arguments of the call and the   *)
(* values it returned, one per application.  Both are empty while the      *)
(* pipeline runs.                                                          *)
(***************************************************************************)
VARIABLES
    call,                   \* the arguments the function is applied to
    returned                \* what the applications so far returned, in order

unit == <<call, returned>>

(***************************************************************************)
(* parsers.py.  A file is the sequence of its lines (.jsonl), of its rows  *)
(* as csv.reader returns them, the header first (.csv), of the items of    *)
(* its array (.json) or of its characters (.txt).  A blank line is a row   *)
(* without fields for csv.reader and a blank character in a text.          *)
(***************************************************************************)
NumChunks(n, size) == (n + size - 1) \div size

\* range(0, len(rows), size) and the slices rows[i:i + size]
Slices(rows, size) ==
    IF rows = <<>> THEN <<>>
    ELSE [k \in 1..NumChunks(Len(rows), size) |->
            SubSeq(rows, (k - 1) * size + 1, Min(k * size, Len(rows)))]

IsBlank(content) == \A k \in 1..Len(content) : content[k] = BlankLine

\* str.strip() of a text: the blank lines at its two ends go.
RECURSIVE Strip(_)
Strip(lines) ==
    IF lines = <<>> THEN <<>>
    ELSE IF Head(lines) = BlankLine THEN Strip(Tail(lines))
    ELSE IF lines[Len(lines)] = BlankLine THEN Strip(SubSeq(lines, 1, Len(lines) - 1))
    ELSE lines

_chunk_text(content, char_count) ==
    SelectSeq(Slices(content, char_count), LAMBDA chunk : ~IsBlank(chunk))

_chunk_csv(content, row_count) ==
    IF content = <<>> THEN <<>>
    ELSE LET header == Head(content)
             data_rows == Tail(content)
             groups == Slices(data_rows, row_count)
         IN  IF data_rows = <<>> THEN <<Strip(content)>>
             ELSE [k \in 1..Len(groups) |-> Strip(<<header>> \o groups[k])]

\* json.loads: an object, or the array of the items.
_chunk_json(content, item_count) ==
    IF content = <<ObjectDoc>> THEN <<content>>
    ELSE Slices(SelectSeq(content, LAMBDA item : item # BlankLine), item_count)

_chunk_jsonl(content, line_count) ==
    Slices(SelectSeq(content, LAMBDA line : line # BlankLine), line_count)

\* Path(file_path).suffix.lower()
Suffix(file_path) == IF file_path \in Paths THEN ".jsonl" ELSE ".txt"

\* A mutant: the chunker remembers that it was called before.
chunk_file_remembers(suffix, content, chunk_size) ==
    IF returned # <<>> THEN _chunk_jsonl(content, chunk_size + 1)
    ELSE _chunk_jsonl(content, chunk_size)

chunk_file(suffix, content, chunk_size) ==
    IF IsBlank(content) THEN <<>>
    ELSE IF suffix = ".txt" THEN _chunk_text(content, chunk_size * CHARS_PER_ITEM)
    ELSE IF suffix = ".csv" THEN _chunk_csv(content, chunk_size)
    ELSE IF suffix = ".json" THEN _chunk_json(content, chunk_size)
    ELSE IF suffix = ".jsonl" THEN _chunk_jsonl(content, chunk_size)
    ELSE _chunk_text(content, chunk_size * CHARS_PER_ITEM)

(***************************************************************************)
(* validation.py                                                           *)
(***************************************************************************)
Verdict(ok, msg) == [ok |-> ok, msg |-> msg]

\* json.loads(line) gives a dict
IsDict(line) == line \in {GoodRec, BadRec}

\* extract_sample_data: the first max_samples dict records of the chunk
\* (structured), the chunk itself (text).
extract_sample_data(chunk, max_samples, mode) ==
    IF mode = "text" THEN chunk
    ELSE LET dicts == SelectSeq(chunk, IsDict)
         IN  SubSeq(dicts, 1, Min(Len(dicts), max_samples))

\* Index (from 1) of the first sample the code raises on, 0 when there is none.
FirstRaising(code, samples) ==
    IF \E k \in 1..Len(samples) : CodeRaisesOn(code, samples[k])
    THEN CHOOSE k \in 1..Len(samples) :
            /\ CodeRaisesOn(code, samples[k])
            /\ \A j \in 1..(k - 1) : ~CodeRaisesOn(code, samples[j])
    ELSE 0

\* A mutant: the validator looks at the first sample only.
validate_function_first_only(code, sample_data, function_name, mode) ==
    IF sample_data = <<>> THEN Verdict(TRUE, NoFeedback)
    ELSE IF CodeRaisesOn(code, sample_data[1])
         THEN Verdict(FALSE, Feedback("validation", "runtime_error", 0))
         ELSE Verdict(TRUE, NoFeedback)

\* A mutant: the code is loaded and the name resolved before the samples are
\* looked at.
validate_function_loads_first(code, sample_data, function_name, mode) ==
    IF ~CodeParses(code)
    THEN Verdict(FALSE, Feedback("validation", "compilation_failed", 0))
    ELSE IF ~CodeDefines(code) \/ function_name = ""
    THEN Verdict(FALSE, Feedback("validation", "not_found", 0))
    ELSE IF sample_data = <<>> \/ FirstRaising(code, sample_data) = 0
    THEN Verdict(TRUE, NoFeedback)
    ELSE Verdict(FALSE, Feedback("validation", "runtime_error",
                                 FirstRaising(code, sample_data) - 1))

\* A mutant: the validator goes on to the next sample after one that raised.
validate_function_invoked_all(code, sample_data, function_name, mode) ==
    IF sample_data = <<>> \/ (mode = "text" /\ IsBlank(sample_data)) THEN <<>>
    ELSE IF ~CodeParses(code) \/ ~CodeDefines(code) \/ function_name = "" THEN <<>>
    ELSE IF mode = "text" THEN <<sample_data>>
    ELSE sample_data

\* The samples validate_function calls the loaded function on, in order.
validate_function_invoked(code, sample_data, function_name, mode) ==
    IF sample_data = <<>> \/ (mode = "text" /\ IsBlank(sample_data)) THEN <<>>
    ELSE IF ~CodeParses(code) \/ ~CodeDefines(code) \/ function_name = "" THEN <<>>
    ELSE IF mode = "text" THEN <<sample_data>>
    ELSE IF FirstRaising(code, sample_data) # 0
         THEN SubSeq(sample_data, 1, FirstRaising(code, sample_data))
         ELSE sample_data

validate_function(code, sample_data, function_name, mode) ==
    IF sample_data = <<>> \/ (mode = "text" /\ IsBlank(sample_data))
    THEN Verdict(TRUE, NoFeedback)
    ELSE IF ~CodeParses(code)
         THEN Verdict(FALSE, Feedback("validation", "compilation_failed", 0))
    ELSE IF ~CodeDefines(code) \/ function_name = ""
         THEN Verdict(FALSE, Feedback("validation", "not_found", 0))
    ELSE IF mode = "text"
         THEN IF \E k \in 1..Len(sample_data) : CodeRaisesOn(code, sample_data[k])
              THEN Verdict(FALSE, Feedback("validation", "runtime_error_text", 0))
              ELSE IF code = "nonstr"
                   THEN Verdict(FALSE, Feedback("validation", "must_return_str", 0))
                   ELSE Verdict(TRUE, NoFeedback)
    ELSE IF FirstRaising(code, sample_data) # 0
         THEN Verdict(FALSE, Feedback("validation", "runtime_error",
                                      FirstRaising(code, sample_data) - 1))
         ELSE Verdict(TRUE, NoFeedback)

(***************************************************************************)
(* response.py: what the backend sends and what parse_response makes of    *)
(* it.  A reply is "malformed" (no well-formed analysis section) or an     *)
(* "analysis" with a status, a name and a code; "fault" is a backend that  *)
(* raises on every attempt.                                                *)
(***************************************************************************)
Reply(kind, status, name, code) ==
    [kind |-> kind, status |-> status, name |-> name, code |-> code]

Parsed(err, status, name, code) ==
    [err |-> err, status |-> status, name |-> name, code |-> code]

\* The texts a backend writes into chunk_status ("": no text), and str.strip().
StatusTexts == {"", "clean", "needs_more_work", " clean ", " ", "done"}

strip(text) ==
    CASE text = " clean " -> "clean"
      [] text = " " -> ""
      [] OTHER -> text

\* A mutant: code that refers to __main__ passes.
parse_response_accepts_main(reply) ==
    IF reply.kind # "analysis"
    THEN Parsed(Feedback("parse", "invalid_xml", 0), "", "", "")
    ELSE IF reply.code # "" /\ ~CodeParses(reply.code)
    THEN Parsed(Feedback("parse", "invalid_python_syntax", 0), "", "", "")
    ELSE Parsed(NoFeedback,
                strip(IF reply.status = "" THEN "needs_more_work" ELSE reply.status),
                reply.name, reply.code)

parse_response(reply) ==
    IF reply.kind # "analysis"
    THEN Parsed(Feedback("parse", "invalid_xml", 0), "", "", "")
    ELSE IF reply.code # "" /\ ~CodeParses(reply.code)
    THEN Parsed(Feedback("parse", "invalid_python_syntax", 0), "", "", "")
    ELSE IF reply.code = "mainref"
    THEN Parsed(Feedback("parse", "main_import", 0), "", "", "")
    ELSE Parsed(NoFeedback,
                strip(IF reply.status = "" THEN "needs_more_work" ELSE reply.status),
                reply.name, reply.code)

(***************************************************************************)
(* Prompt: what the backend can see of the state.  build_context renders   *)
(* the name and docstring of each accumulated function.                    *)
(***************************************************************************)
build_context(functions) == [k \in 1..Len(functions) |-> functions[k].name]

build_prompt(context, chunk, error_feedback) ==
    [context |-> context, chunk |-> chunk, feedback |-> error_feedback]

(***************************************************************************)
(* output.py                                                               *)
(***************************************************************************)
\* A mutant: the entry that stays for a name is the last one accepted.
deduplicate_functions_keep_last(functions) ==
    LET keep == {k \in 1..Len(functions) :
                    \A j \in (k + 1)..Len(functions) : functions[j].name # functions[k].name}
        Pick[k \in 0..Len(functions)] ==
            IF k = 0 THEN <<>>
            ELSE IF k \in keep THEN Append(Pick[k - 1], functions[k]) ELSE Pick[k - 1]
    IN  Pick[Len(functions)]

RECURSIVE deduplicate_functions(_)
deduplicate_functions(functions) ==
    IF functions = <<>> THEN <<>>
    ELSE LET n == Len(functions)
             front == SubSeq(functions, 1, n - 1)
         IN  IF \E k \in 1..(n - 1) : functions[k].name = functions[n].name
             THEN deduplicate_functions(front)
             ELSE Append(deduplicate_functions(front), functions[n])

\* The names deduplicate_functions prints a warning for, in order.
RECURSIVE deduplicate_warnings(_)
deduplicate_warnings(functions) ==
    IF functions = <<>> THEN <<>>
    ELSE LET n == Len(functions)
             front == SubSeq(functions, 1, n - 1)
         IN  IF \E k \in 1..(n - 1) : functions[k].name = functions[n].name
             THEN Append(deduplicate_warnings(front), functions[n].name)
             ELSE deduplicate_warnings(front)

\* generate_clean_data_function: the callees of the statements
\* "data = name(data)" of clean_data, in order; "return data" follows them.
generate_clean_data_function(function_names) == function_names

\* The names the merged file defines at module level, in the order of their
\* def statements: the retained functions, then clean_data.
ModuleDefs(doc) ==
    [k \in 1..Len(doc.functions) |-> doc.functions[k].name] \o <<"clean_data">>

\* The def statement a call of name reaches when the file is imported: the
\* last one for that name (0: no definition).
Resolve(doc, name) ==
    IF \E k \in 1..Len(ModuleDefs(doc)) : ModuleDefs(doc)[k] = name
    THEN CHOOSE k \in 1..Len(ModuleDefs(doc)) :
            /\ ModuleDefs(doc)[k] = name
            /\ \A j \in (k + 1)..Len(ModuleDefs(doc)) : ModuleDefs(doc)[j] # name
    ELSE 0

\* For each call statement of clean_data, the def statement it reaches.
clean_data_calls(doc) ==
    LET callees == generate_clean_data_function(
                       [k \in 1..Len(doc.functions) |-> doc.functions[k].name])
    IN  [k \in 1..Len(callees) |-> Resolve(doc, callees[k])]

\* A record as a generated function sees it: the input record, how often it
\* has been changed, and the exception raised while it was processed.
Record(rec) == [rec |-> rec, bumps |-> 0, raised |-> ""]

\* name(data) for a def with the given code.
call_function(code, data) ==
    IF CodeRaisesOn(code, data.rec) THEN [data EXCEPT !.raised = "KeyError"]
    ELSE IF code = "bump" THEN [data EXCEPT !.bumps = @ + 1]
    ELSE data

\* The statements "data = name(data)" of clean_data, from the first of the
\* given targets on: 0 is a name without def, Len(doc.functions) + 1 the
\* def of clean_data itself.
RECURSIVE run_calls(_, _, _)
run_calls(doc, targets, data) ==
    IF targets = <<>> \/ data.raised # "" THEN data
    ELSE run_calls(doc, Tail(targets),
            IF Head(targets) = 0 THEN [data EXCEPT !.raised = "NameError"]
            ELSE IF Head(targets) > Len(doc.functions)
                 THEN [data EXCEPT !.raised = "RecursionError"]
                 ELSE call_function(doc.functions[Head(targets)].code, data))

\* clean_data(data) of the merged file.
clean_data(doc, data) == run_calls(doc, clean_data_calls(doc), data)

\* The merged document parses iff every retained body still parses once its
\* import lines are taken out.
MergedParses(functions) == \A k \in 1..Len(functions) : CodeMergeable(functions[k].code)

\* A mutant: nothing is written for an empty list.
write_cleaning_file_nothing_for_empty(functions) ==
    IF functions = <<>> THEN [raised |-> FALSE, doc |-> NoOutput]
    ELSE LET retained == deduplicate_functions(functions)
         IN  IF MergedParses(retained)
             THEN [raised |-> FALSE, doc |-> OutputDoc(retained)]
             ELSE [raised |-> TRUE, doc |-> NoOutput]

\* A mutant: the merged document is written before it is parsed.
write_cleaning_file_unchecked(functions) ==
    IF functions = <<>> THEN [raised |-> FALSE, doc |-> OutputDoc(<<>>)]
    ELSE LET retained == deduplicate_functions(functions)
         IN  [raised |-> ~MergedParses(retained), doc |-> OutputDoc(retained)]

\* write_cleaning_file: raised = OutputValidationError; doc is the document
\* written to the output path, NoOutput when nothing is written.
write_cleaning_file(functions) ==
    IF functions = <<>> THEN [raised |-> FALSE, doc |-> OutputDoc(<<>>)]
    ELSE LET retained == deduplicate_functions(functions)
         IN  IF MergedParses(retained)
             THEN [raised |-> FALSE, doc |-> OutputDoc(retained)]
             ELSE [raised |-> TRUE, doc |-> NoOutput]

SelectParsing(functions) == SelectSeq(functions, LAMBDA f : CodeParses(f.code))

\* The output path after a call of write_cleaning_file that found old there.
path_after(written, old) == IF written.doc.kind = "none" THEN old ELSE written.doc

\* DataCleaner._write_output: the output file after the call, and whether the
\* call raised.
write_output(functions, old) ==
    LET first == write_cleaning_file(functions)
        valid == SelectParsing(functions)
        second == write_cleaning_file(valid)
    IN  IF ~first.raised THEN [raised |-> FALSE, out |-> path_after(first, old)]
        ELSE IF valid = <<>> THEN [raised |-> FALSE, out |-> path_after(first, old)]
        ELSE [raised |-> second.raised,
              out |-> path_after(second, path_after(first, old))]

(***************************************************************************)
(* State.                                                                  *)
(***************************************************************************)
VARIABLES
    files,                  \* disk: path -> records of the input file
    stateFile,              \* disk: the document at the state_file path
    tmpFile,                \* disk: the document at state_file + ".tmp"
    outputFile,             \* disk: cleaning_functions.py
    pc,                     \* where the process is; "idle" = no process
    argv,                   \* the arguments the caller gives every process
    cfg,                    \* constructor arguments of the DataCleaner
    functions,              \* self.functions
    last_completed_chunk,   \* self._last_completed_chunk
    total_chunks,           \* self._total_chunks
    chunks,                 \* run(): chunks
    idx,                    \* run(): i
    iteration,              \* _process_chunk(): iteration
    error_feedback,         \* _process_chunk(): error_feedback
    resumed,                \* run(): resumed
    err,                    \* the exception that ended run(), "" if none
    runs,                   \* processes started so far
    events,                 \* progress events emitted by this process
    called,                 \* chunks for which this process called the backend
    saved,                  \* chunks after which _save_state returned in this process
    loaded,                 \* the checkpoint _load_state adopted in this process
    seen,                   \* the document _load_state read in this process
    det,                    \* the backend answers equal prompts equally
    memo,                   \* det: the backend's answers so far, by prompt
    observer,               \* on_progress: "returns", or "raises" (it may raise on any event)
    trace,                  \* the events handed to on_progress by this process, in order
    calls,                  \* the backend calls made for the current chunk, in order
    observer_raised         \* on_progress raised on an event of the step just taken

disk == <<files, stateFile, tmpFile, outputFile>>
memory == <<cfg, functions, last_completed_chunk, total_chunks, chunks, idx,
            iteration, error_feedback, resumed>>
history == <<runs, events, called, saved, loaded, seen>>
backend == <<argv, det, memo, observer>>
observed == <<trace, calls>>
vars == <<disk, pc, err, memory, history, backend, observed, observer_raised, unit>>

Config(path, cs, mi, vr, sf) ==
    [file_path |-> path, chunk_size |-> cs, max_iterations |-> mi,
     validate_runtime |-> vr, state_file |-> sf]
NoConfig == Config("", 0, 0, TRUE, FALSE)

Event(type, chunk_index) == [type |-> type, chunk_index |-> chunk_index]

\* A mutant: _emit is called without the chunk index.
ProgressEvent_default_index(type, chunk_index, total, it) ==
    [type |-> type, chunk_index |-> 0, total_chunks |-> total, iteration |-> it]

\* The event dict _emit builds; iteration is -1 for the events without one.
ProgressEvent(type, chunk_index, total, it) ==
    [type |-> type, chunk_index |-> chunk_index, total_chunks |-> total, iteration |-> it]

\* What is known of one backend call of _process_chunk: the corrective note
\* its prompt carried, and what came back: the parsed status, whether the reply
\* carried code, whether parse_response raised ParseError, whether the
\* validator rejected the code, and the diagnostic of that failure.
Call(chunk_index, it, note, status, proposed, parse_error, rejected, diagnostic) ==
    [chunk_index |-> chunk_index, iteration |-> it, note |-> note, status |-> status,
     proposed |-> proposed, parse_error |-> parse_error, rejected |-> rejected,
     diagnostic |-> diagnostic]

Running == {"constructed", "load", "set_total", "loop", "iter",
            "save_dump", "save_rename"}
Ended == {"done", "aborted", "returned"}

Configs ==
    {Config(path, cs, mi, vr, sf) :
        path \in Paths, cs \in ChunkSizes, mi \in 0..MaxIter,
        vr \in BOOLEAN, sf \in BOOLEAN}

(***************************************************************************)
(* What can be on disk before the first process starts: nothing, a         *)
(* document that is not JSON, or a checkpoint that a completed chunk of an *)
(* earlier run left behind, a run of this release or of the newer one      *)
(* (state.py, version 0.5.0), over either file and with either chunk size. *)
(***************************************************************************)
FileSystems == {[p \in Paths |-> IF p = "a.jsonl" THEN c ELSE ShortFile] : c \in ContentPool}

EarlierCheckpoints(fs) ==
    UNION {{CheckpointDoc(ver, p, cs, l, Len(chunk_file(Suffix(p), fs[p], cs)), <<Fn("f", "ok")>>) :
                l \in 0..(Len(chunk_file(Suffix(p), fs[p], cs)) - 1),
                ver \in {STATE_VERSION, STORE_STATE_VERSION}} :
            p \in Paths, cs \in ChunkSizes}

Init0 ==
    /\ files \in FileSystems
    /\ argv \in Configs
    /\ stateFile \in {NoFile, CorruptFile} \cup EarlierCheckpoints(files)
    /\ tmpFile = NoFile
    /\ outputFile = NoOutput
    /\ pc = "idle"
    /\ err = ""
    /\ cfg = NoConfig
    /\ functions = <<>>
    /\ last_completed_chunk = -1
    /\ total_chunks = 0
    /\ chunks = <<>>
    /\ idx = 0
    /\ iteration = 0
    /\ error_feedback = NoFeedback
    /\ resumed = FALSE
    /\ runs = 0
    /\ events = {}
    /\ called = {}
    /\ saved = {}
    /\ loaded = NoFile
    /\ seen = NoFile
    /\ memo = <<>>
    /\ trace = <<>>
    /\ calls = <<>>
    /\ observer_raised = FALSE

\* No function is applied on its own while the pipeline runs.
NoCall == call = <<>> /\ returned = <<>>

Init == Init0 /\ det = FALSE /\ observer = "returns" /\ NoCall

(***************************************************************************)
(* Starting and ending a process.                                          *)
(***************************************************************************)
FreshHistory ==
    /\ events' = {}
    /\ called' = {}
    /\ saved' = {}
    /\ loaded' = NoFile
    /\ seen' = NoFile
    /\ trace' = <<>>
    /\ calls' = <<>>
    /\ observer_raised' = FALSE

\* DataCleaner.__init__ with the caller's arguments.
Construct ==
    /\ pc = "idle"
    /\ runs < MaxRuns
    /\ pc' = "constructed"
    /\ err' = ""
    /\ cfg' = argv
    /\ functions' = <<>>
    /\ total_chunks' = 0
    /\ last_completed_chunk' = -1
    /\ chunks' = <<>>
    /\ idx' = 0
    /\ iteration' = 0
    /\ error_feedback' = NoFeedback
    /\ resumed' = FALSE
    /\ runs' = runs + 1
    /\ FreshHistory
    /\ UNCHANGED <<disk, backend, unit>>

\* DataCleaner.resume(state_file, backend): the exception it raises ("": none)
\* and the instance it returns.  The arguments come from the checkpoint, the
\* ones it does not record from the constructor's defaults.
resume(doc) ==
    IF doc.kind = "none"
    THEN [raised |-> "FileNotFoundError", cfg |-> NoConfig, functions |-> <<>>,
          last_completed_chunk |-> -1, total_chunks |-> 0]
    ELSE IF doc.kind \in {"corrupt", "partial"}
    THEN [raised |-> "ValueError: invalid state file JSON", cfg |-> NoConfig,
          functions |-> <<>>, last_completed_chunk |-> -1, total_chunks |-> 0]
    ELSE IF doc.kind = "nopath"
    THEN [raised |-> "KeyError", cfg |-> NoConfig, functions |-> <<>>,
          last_completed_chunk |-> -1, total_chunks |-> 0]
    ELSE [raised |-> "",
          cfg |-> Config(doc.file_path, doc.chunk_size, DEFAULT_MAX_ITERATIONS, TRUE, TRUE),
          functions |-> doc.functions,
          last_completed_chunk |-> doc.last_completed_chunk,
          total_chunks |-> doc.total_chunks]

\* cli.py, cmd_resume: the exit code, given the exception cleaner.run() ends
\* with ("": it returns).
ExitCode(raised) ==
    CASE raised = "" -> 0
      [] raised = "FileNotFoundError" -> 1
      [] raised \in {"ValueError: invalid state file JSON",
                     "ValueError: state file_path mismatch"} -> 1
      [] OTHER -> 3

cmd_resume(doc, run_raised) ==
    IF doc.kind = "none" THEN 1
    ELSE IF resume(doc).raised # "" THEN ExitCode(resume(doc).raised)
    ELSE ExitCode(run_raised)

Resume ==
    /\ pc = "idle"
    /\ runs < MaxRuns
    /\ runs' = runs + 1
    /\ FreshHistory
    /\ chunks' = <<>>
    /\ idx' = 0
    /\ iteration' = 0
    /\ error_feedback' = NoFeedback
    /\ resumed' = FALSE
    /\ pc' = IF resume(stateFile).raised = "" THEN "constructed" ELSE "aborted"
    /\ err' = resume(stateFile).raised
    /\ cfg' = resume(stateFile).cfg
    /\ functions' = resume(stateFile).functions
    /\ last_completed_chunk' = resume(stateFile).last_completed_chunk
    /\ total_chunks' = resume(stateFile).total_chunks
    /\ UNCHANGED <<disk, backend, unit>>

ProcessGone ==
    /\ pc' = "idle"
    /\ err' = ""
    /\ cfg' = NoConfig
    /\ functions' = <<>>
    /\ last_completed_chunk' = -1
    /\ total_chunks' = 0
    /\ chunks' = <<>>
    /\ idx' = 0
    /\ iteration' = 0
    /\ error_feedback' = NoFeedback
    /\ resumed' = FALSE
    /\ FreshHistory
    /\ UNCHANGED <<disk, runs, backend, unit>>

\* The process is killed: memory is lost, the disk stays as it is.
Crash ==
    /\ pc \in Running
    /\ ProcessGone

\* run() raised; the process exits and the caller may start another.
Exit ==
    /\ pc = "aborted"
    /\ ProcessGone

(***************************************************************************)
(* DataCleaner.run                                                         *)
(***************************************************************************)
\* A mutant: run() goes on when there is no chunk.
RunStart_without_empty_return ==
    /\ pc = "constructed"
    /\ chunks' = chunk_file(Suffix(cfg.file_path), files[cfg.file_path], cfg.chunk_size)
    /\ pc' = "load"
    /\ UNCHANGED <<disk, err, cfg, functions, last_completed_chunk, total_chunks,
                   idx, iteration, error_feedback, resumed, history, backend, unit>>
    /\ UNCHANGED observed
    /\ observer_raised' = FALSE

\* chunk_file(...); if not chunks: return
RunStart ==
    /\ pc = "constructed"
    /\ chunks' = chunk_file(Suffix(cfg.file_path), files[cfg.file_path], cfg.chunk_size)
    /\ pc' = IF chunks' = <<>> THEN "returned" ELSE "load"
    /\ UNCHANGED <<disk, err, cfg, functions, last_completed_chunk, total_chunks,
                   idx, iteration, error_feedback, resumed, history, backend, unit>>
    /\ UNCHANGED observed
    /\ observer_raised' = FALSE

\* A mutant: _load_state without the file_path comparison.
load_state_any_path(doc, expected_file_path) ==
    IF doc.kind = "corrupt" THEN [raised |-> "ValueError: invalid state file JSON"]
    ELSE [raised |-> "", functions |-> doc.functions,
          last_completed_chunk |-> doc.last_completed_chunk,
          total_chunks |-> doc.total_chunks]

\* A mutant: _load_state restores the position and forgets the functions.
load_state_without_functions(doc, expected_file_path) ==
    IF doc.kind = "corrupt" THEN [raised |-> "ValueError: invalid state file JSON"]
    ELSE IF doc.file_path # expected_file_path
    THEN [raised |-> "ValueError: state file_path mismatch"]
    ELSE [raised |-> "", functions |-> <<>>,
          last_completed_chunk |-> doc.last_completed_chunk,
          total_chunks |-> doc.total_chunks]

\* _load_state, as an update of the fields it assigns.
load_state(doc, expected_file_path) ==
    IF doc.kind = "corrupt" THEN [raised |-> "ValueError: invalid state file JSON"]
    ELSE IF doc.file_path # expected_file_path
    THEN [raised |-> "ValueError: state file_path mismatch"]
    ELSE [raised |-> "", functions |-> doc.functions,
          last_completed_chunk |-> doc.last_completed_chunk,
          total_chunks |-> doc.total_chunks]

LoadState ==
    /\ pc = "load"
    /\ IF ~cfg.state_file \/ stateFile.kind = "none"
       THEN /\ pc' = "set_total"
            /\ UNCHANGED <<err, functions, last_completed_chunk, total_chunks,
                           resumed, loaded, seen>>
       ELSE LET got == load_state(stateFile, cfg.file_path)
            IN  /\ seen' = stateFile
                /\ IF got.raised # ""
                   THEN /\ pc' = "aborted"
                        /\ err' = got.raised
                        /\ UNCHANGED <<functions, last_completed_chunk, total_chunks,
                                       resumed, loaded>>
                   ELSE /\ pc' = "set_total"
                        /\ functions' = got.functions
                        /\ last_completed_chunk' = got.last_completed_chunk
                        /\ total_chunks' = got.total_chunks
                        /\ resumed' = TRUE
                        /\ loaded' = stateFile
                        /\ UNCHANGED err
    /\ UNCHANGED <<disk, cfg, chunks, idx, iteration, error_feedback,
                   runs, events, called, saved, backend, unit>>
    /\ UNCHANGED observed
    /\ observer_raised' = FALSE

\* self._total_chunks = len(chunks), and the loop starts at i = 0
SetTotal ==
    /\ pc = "set_total"
    /\ total_chunks' = Len(chunks)
    /\ idx' = 0
    /\ pc' = "loop"
    /\ UNCHANGED <<disk, err, cfg, functions, last_completed_chunk, chunks,
                   iteration, error_feedback, resumed, history, backend, unit>>
    /\ UNCHANGED observed
    /\ observer_raised' = FALSE

\* A mutant: the loop over the chunks does not advance past a chunk that the
\* checkpoint marks as completed.
SkipChunk_without_advance ==
    /\ pc = "loop"
    /\ idx < Len(chunks)
    /\ idx <= last_completed_chunk
    /\ UNCHANGED vars

\* if i <= self._last_completed_chunk: continue
SkipChunk ==
    /\ pc = "loop"
    /\ idx < Len(chunks)
    /\ idx <= last_completed_chunk
    /\ idx' = idx + 1
    /\ UNCHANGED <<disk, pc, err, cfg, functions, last_completed_chunk, total_chunks,
                   chunks, iteration, error_feedback, resumed, history, backend, unit>>
    /\ UNCHANGED observed
    /\ observer_raised' = FALSE

(***************************************************************************)
(* DataCleaner._emit: on_progress(event) is called inside try / except     *)
(* Exception.  The steps that emit come in two parts: the step as it goes  *)
(* when _emit returns (...Returned), and the step with the observer, which *)
(* may raise on the events of the step.                                    *)
(***************************************************************************)
\* Whether on_progress raises on the events of a step.
ObserverFaults == IF observer = "raises" THEN BOOLEAN ELSE {FALSE}

\* A mutant: _emit without the try.
_emit_uncaught(observer_raises) == [propagated |-> observer_raises]

_emit(observer_raises) == [propagated |-> FALSE]

\* An exception leaves _emit, and with it run().
Propagate ==
    /\ pc' = "aborted"
    /\ err' = "callback error"
    /\ UNCHANGED <<disk, memory, history, backend, unit, observed>>

\* A mutant: the corrective note of the chunk before is kept.
StartChunkReturned_keeps_feedback ==
    /\ pc = "loop"
    /\ idx < Len(chunks)
    /\ idx > last_completed_chunk
    /\ events' = events \cup {Event("chunk_start", idx)}
    /\ trace' = Append(trace, ProgressEvent("chunk_start", idx, total_chunks, -1))
    /\ calls' = <<>>
    /\ iteration' = 0
    /\ pc' = "iter"
    /\ UNCHANGED <<disk, err, cfg, functions, last_completed_chunk, total_chunks,
                   chunks, idx, resumed, runs, called, saved, loaded, seen, backend, unit,
                   error_feedback>>

\* _process_chunk begins: chunk_start, error_feedback = ""
StartChunkReturned ==
    /\ pc = "loop"
    /\ idx < Len(chunks)
    /\ idx > last_completed_chunk
    /\ events' = events \cup {Event("chunk_start", idx)}
    /\ trace' = Append(trace, ProgressEvent("chunk_start", idx, total_chunks, -1))
    /\ calls' = <<>>
    /\ error_feedback' = NoFeedback
    /\ iteration' = 0
    /\ pc' = "iter"
    /\ UNCHANGED <<disk, err, cfg, functions, last_completed_chunk, total_chunks,
                   chunks, idx, resumed, runs, called, saved, loaded, seen, backend, unit>>

StartChunk ==
    \E r \in ObserverFaults :
        /\ observer_raised' = r
        /\ IF _emit(r).propagated THEN (ENABLED StartChunkReturned) /\ Propagate
           ELSE StartChunkReturned

(***************************************************************************)
(* The backend.  call_llm returns the reply of the first attempt that does *)
(* not raise; the reply "fault" is a backend that raises on every attempt, *)
(* which call_llm turns into a RetryError.                                 *)
(***************************************************************************)
ProposalPool == {Fn("f", "ok"), Fn("clean_data", "raise2"), Fn("f", "tryimp")}

Proposals(context) ==
    {Fn("", "")} \cup (IF Len(context) < MaxFunctions THEN ProposalPool ELSE {})

ReplyPool(context) ==
    {Reply("fault", "", "", ""), Reply("malformed", "", "", "")}
    \cup {Reply("analysis", st, pr.name, pr.code) :
            st \in {"clean", "needs_more_work"}, pr \in Proposals(context)}

Replies(prompt) ==
    IF det /\ prompt \in DOMAIN memo THEN {memo[prompt]} ELSE ReplyPool(prompt.context)

\* The backend ends a chunk, with a clean status or a fault, at the latest in
\* its reply to call MaxIter + 1 for it.
Ends(it, reply) == it < MaxIter \/ reply.status = "clean" \/ reply.kind = "fault"

Remember(prompt, reply) ==
    IF det /\ prompt \notin DOMAIN memo THEN memo @@ (prompt :> reply) ELSE memo

(***************************************************************************)
(* DataCleaner._process_chunk: one iteration of the loop, from the         *)
(* iteration event to the continue, return or raise that ends it.          *)
(***************************************************************************)
Outcome(kind, fns, fb, evs) ==
    [kind |-> kind, functions |-> fns, feedback |-> fb, events |-> evs]

\* A mutant: a clean reply that carries code has its function appended.
iteration_body_clean_appends(reply, chunk, chunk_idx, fns, validate_runtime) ==
    LET result == parse_response(reply)
    IN  IF reply.kind = "fault" THEN Outcome("raise", fns, NoFeedback, {})
        ELSE IF result.err.kind # "none" THEN Outcome("continue", fns, result.err, {})
        ELSE IF result.status = "clean"
        THEN Outcome("return",
                     IF result.code = "" THEN fns
                     ELSE Append(fns, Fn(result.name, result.code)),
                     NoFeedback, {Event("chunk_done", chunk_idx)})
        ELSE IF result.code = "" THEN Outcome("continue", fns, NoFeedback, {})
        ELSE Outcome("continue", Append(fns, Fn(result.name, result.code)), NoFeedback,
                     {Event("function_generated", chunk_idx)})

\* A mutant: an accepted function takes the place of the accumulator.
iteration_body_replaces(reply, chunk, chunk_idx, fns, validate_runtime) ==
    LET result == parse_response(reply)
    IN  IF reply.kind = "fault" THEN Outcome("raise", fns, NoFeedback, {})
        ELSE IF result.err.kind # "none" THEN Outcome("continue", fns, result.err, {})
        ELSE IF result.status = "clean"
        THEN Outcome("return", fns, NoFeedback, {Event("chunk_done", chunk_idx)})
        ELSE IF result.code = "" THEN Outcome("continue", fns, NoFeedback, {})
        ELSE Outcome("continue", <<Fn(result.name, result.code)>>, NoFeedback,
                     {Event("function_generated", chunk_idx)})

\* A mutant: the validator runs whatever validate_runtime is.
iteration_body_always_validates(reply, chunk, chunk_idx, fns, validate_runtime) ==
    LET result == parse_response(reply)
        sample_data == extract_sample_data(chunk, MAX_SAMPLES, "structured")
        verdict == validate_function(result.code, sample_data, result.name, "structured")
    IN  IF reply.kind = "fault" THEN Outcome("raise", fns, NoFeedback, {})
        ELSE IF result.err.kind # "none" THEN Outcome("continue", fns, result.err, {})
        ELSE IF result.status = "clean"
        THEN Outcome("return", fns, NoFeedback, {Event("chunk_done", chunk_idx)})
        ELSE IF result.code = "" THEN Outcome("continue", fns, NoFeedback, {})
        ELSE IF ~verdict.ok
        THEN Outcome("continue", fns, verdict.msg,
                     {Event("validation_failed", chunk_idx)})
        ELSE Outcome("continue", Append(fns, Fn(result.name, result.code)), NoFeedback,
                     {Event("function_generated", chunk_idx)})

\* A mutant: a reply that cannot be parsed is asked for again within the
\* same iteration.
iteration_body_parse_error_is_free(reply, chunk, chunk_idx, fns, validate_runtime) ==
    LET result == parse_response(reply)
        sample_data == extract_sample_data(chunk, MAX_SAMPLES, "structured")
        verdict == validate_function(result.code, sample_data, result.name, "structured")
    IN  IF reply.kind = "fault" THEN Outcome("raise", fns, NoFeedback, {})
        ELSE IF result.err.kind # "none" THEN Outcome("again", fns, result.err, {})
        ELSE IF result.status = "clean"
        THEN Outcome("return", fns, NoFeedback, {Event("chunk_done", chunk_idx)})
        ELSE IF result.code = "" THEN Outcome("continue", fns, NoFeedback, {})
        ELSE IF validate_runtime /\ ~verdict.ok
        THEN Outcome("continue", fns, verdict.msg,
                     {Event("validation_failed", chunk_idx)})
        ELSE Outcome("continue", Append(fns, Fn(result.name, result.code)), NoFeedback,
                     {Event("function_generated", chunk_idx)})

\* A mutant: a function the validator rejected is appended all the same.
iteration_body_keeps_rejected(reply, chunk, chunk_idx, fns, validate_runtime) ==
    LET result == parse_response(reply)
        sample_data == extract_sample_data(chunk, MAX_SAMPLES, "structured")
        verdict == validate_function(result.code, sample_data, result.name, "structured")
    IN  IF reply.kind = "fault" THEN Outcome("raise", fns, NoFeedback, {})
        ELSE IF result.err.kind # "none" THEN Outcome("continue", fns, result.err, {})
        ELSE IF result.status = "clean"
        THEN Outcome("return", fns, NoFeedback, {Event("chunk_done", chunk_idx)})
        ELSE IF result.code = "" THEN Outcome("continue", fns, NoFeedback, {})
        ELSE IF validate_runtime /\ ~verdict.ok
        THEN Outcome("continue", Append(fns, Fn(result.name, result.code)), verdict.msg,
                     {Event("validation_failed", chunk_idx)})
        ELSE Outcome("continue", Append(fns, Fn(result.name, result.code)), NoFeedback,
                     {Event("function_generated", chunk_idx)})

\* What one iteration does with a reply: kind is "raise" (RetryError leaves
\* run), "return" (chunk clean) or "continue" (next iteration).
iteration_body(reply, chunk, chunk_idx, fns, validate_runtime) ==
    LET result == parse_response(reply)
        sample_data == extract_sample_data(chunk, MAX_SAMPLES, "structured")
        verdict == validate_function(result.code, sample_data, result.name, "structured")
    IN  IF reply.kind = "fault" THEN Outcome("raise", fns, NoFeedback, {})
        ELSE IF result.err.kind # "none" THEN Outcome("continue", fns, result.err, {})
        ELSE IF result.status = "clean"
        THEN Outcome("return", fns, NoFeedback, {Event("chunk_done", chunk_idx)})
        ELSE IF result.code = "" THEN Outcome("continue", fns, NoFeedback, {})
        ELSE IF validate_runtime /\ ~verdict.ok
        THEN Outcome("continue", fns, verdict.msg,
                     {Event("validation_failed", chunk_idx)})
        ELSE Outcome("continue", Append(fns, Fn(result.name, result.code)), NoFeedback,
                     {Event("function_generated", chunk_idx)})

\* The events of a step, in the order they are emitted (at most one).
InOrder(evs, total) ==
    IF evs = {} THEN <<>>
    ELSE LET e == CHOOSE x \in evs : TRUE
         IN  <<ProgressEvent(e.type, e.chunk_index, total, -1)>>

IterateReturned ==
    /\ pc = "iter"
    /\ iteration < cfg.max_iterations
    /\ LET chunk == chunks[idx + 1]
           prompt == build_prompt(build_context(functions), chunk, error_feedback)
       IN  \E reply \in Replies(prompt) :
             LET out == iteration_body(reply, chunk, idx, functions,
                                       cfg.validate_runtime)
             IN  /\ Ends(iteration, reply)
                 /\ memo' = Remember(prompt, reply)
                 /\ called' = called \cup {idx}
                 /\ events' = events \cup {Event("iteration", idx)} \cup out.events
                 /\ trace' = trace
                              \o <<ProgressEvent("iteration", idx, total_chunks, iteration)>>
                              \o InOrder(out.events, total_chunks)
                 /\ calls' = Append(calls,
                        Call(idx, iteration, prompt.feedback, parse_response(reply).status,
                             reply.code # "",
                             reply.kind # "fault" /\ parse_response(reply).err.kind # "none",
                             Event("validation_failed", idx) \in out.events,
                             IF reply.kind = "fault" THEN NoFeedback
                             ELSE IF parse_response(reply).err.kind # "none"
                             THEN parse_response(reply).err
                             ELSE IF Event("validation_failed", idx) \in out.events
                             THEN validate_function(reply.code,
                                      extract_sample_data(chunk, MAX_SAMPLES, "structured"),
                                      reply.name, "structured").msg
                             ELSE NoFeedback))
                 /\ functions' = out.functions
                 /\ error_feedback' = out.feedback
                 /\ pc' = CASE out.kind = "raise" -> "aborted"
                            [] out.kind = "return" -> "mark"
                            [] OTHER -> "iter"
                 /\ err' = IF out.kind = "raise" THEN "RetryError" ELSE err
                 /\ iteration' = IF out.kind = "continue" THEN iteration + 1
                                 ELSE iteration
    /\ UNCHANGED <<disk, cfg, last_completed_chunk, total_chunks, chunks, idx,
                   resumed, runs, saved, loaded, seen, argv, det, observer, unit>>

Iterate ==
    \E r \in ObserverFaults :
        /\ observer_raised' = r
        /\ IF _emit(r).propagated THEN (ENABLED IterateReturned) /\ Propagate
           ELSE IterateReturned

\* A mutant: an exhausted chunk is left without being marked and saved.
Exhausted_unsaved ==
    /\ pc = "iter"
    /\ iteration >= cfg.max_iterations
    /\ events' = events \cup {Event("chunk_done", idx)}
    /\ trace' = Append(trace, ProgressEvent("chunk_done", idx, total_chunks, -1))
    /\ idx' = idx + 1
    /\ pc' = "loop"
    /\ observer_raised' = FALSE
    /\ UNCHANGED <<disk, err, cfg, functions, last_completed_chunk, total_chunks,
                   chunks, iteration, error_feedback, resumed, runs, called, saved,
                   loaded, seen, backend, unit, calls>>

\* A mutant: a chunk that used up its iterations ends the run with an error.
ExhaustedReturned_fatal ==
    /\ pc = "iter"
    /\ iteration >= cfg.max_iterations
    /\ pc' = "aborted"
    /\ err' = "MaxIterationsError"
    /\ UNCHANGED <<disk, memory, history, backend, unit, observed>>

\* The loop ran max_iterations times: warning, chunk_done.
ExhaustedReturned ==
    /\ pc = "iter"
    /\ iteration >= cfg.max_iterations
    /\ events' = events \cup {Event("chunk_done", idx)}
    /\ trace' = Append(trace, ProgressEvent("chunk_done", idx, total_chunks, -1))
    /\ pc' = "mark"
    /\ UNCHANGED <<disk, err, memory, runs, called, saved, loaded, seen, backend, unit, calls>>

Exhausted ==
    \E r \in ObserverFaults :
        /\ observer_raised' = r
        /\ IF _emit(r).propagated THEN (ENABLED ExhaustedReturned) /\ Propagate
           ELSE ExhaustedReturned

(***************************************************************************)
(* run(): self._last_completed_chunk = i; self._save_state()               *)
(***************************************************************************)
\* A mutant: the checkpoint is built from the accumulator as it was loaded.
CurrentCheckpoint_stale_functions ==
    CheckpointDoc(STATE_VERSION, cfg.file_path, cfg.chunk_size,
                  last_completed_chunk, total_chunks, loaded.functions)

CurrentCheckpoint ==
    CheckpointDoc(STATE_VERSION, cfg.file_path, cfg.chunk_size,
                  last_completed_chunk, total_chunks, functions)

\* A mutant: _save_state opens the state file itself.
open_state_file_for_write(tmp, target) == [tmp |-> tmp, target |-> PartialFile]

\* What open(tmp_path, "w") leaves at the two paths: an empty temporary file.
open_for_write(tmp, target) == [tmp |-> PartialFile, target |-> target]

\* ... = i, then _save_state up to open(tmp_path, "w"), which truncates.
MarkCompleted ==
    /\ pc = "mark"
    /\ last_completed_chunk' = idx
    /\ IF cfg.state_file
       THEN /\ tmpFile' = open_for_write(tmpFile, stateFile).tmp
            /\ stateFile' = open_for_write(tmpFile, stateFile).target
            /\ pc' = "save_dump"
            /\ UNCHANGED <<idx, saved>>
       ELSE /\ pc' = "loop"
            /\ idx' = idx + 1
            /\ saved' = saved \cup {idx}
            /\ UNCHANGED <<tmpFile, stateFile>>
    /\ UNCHANGED <<files, outputFile, err, cfg, functions, total_chunks,
                   chunks, iteration, error_feedback, resumed, runs, events, called,
                   loaded, seen, backend, unit>>
    /\ UNCHANGED observed
    /\ observer_raised' = FALSE

\* json.dump(state, f) and the close of the temporary file
SaveDump ==
    /\ pc = "save_dump"
    /\ tmpFile' = CurrentCheckpoint
    /\ pc' = "save_rename"
    /\ UNCHANGED <<files, stateFile, outputFile, err, memory, history, backend, unit>>
    /\ UNCHANGED observed
    /\ observer_raised' = FALSE

\* What os.rename(tmp_path, state_file) leaves at the two paths.
rename_tmp(tmp, target) == [target |-> tmp, tmp |-> NoFile]

SaveRename ==
    /\ pc = "save_rename"
    /\ stateFile' = rename_tmp(tmpFile, stateFile).target
    /\ tmpFile' = rename_tmp(tmpFile, stateFile).tmp
    /\ saved' = saved \cup {idx}
    /\ idx' = idx + 1
    /\ pc' = "loop"
    /\ UNCHANGED <<files, outputFile, err, cfg, functions, last_completed_chunk,
                   total_chunks, chunks, iteration, error_feedback, resumed, runs,
                   events, called, loaded, seen, backend, unit>>
    /\ UNCHANGED observed
    /\ observer_raised' = FALSE

\* After the loop: _write_output(), the complete event, return.
WriteOutputReturned ==
    /\ pc = "loop"
    /\ idx >= Len(chunks)
    /\ LET w == write_output(functions, outputFile)
       IN  IF w.raised
           THEN /\ pc' = "aborted"
                /\ err' = "OutputValidationError"
                /\ outputFile' = w.out
                /\ UNCHANGED <<events, trace>>
           ELSE /\ pc' = "done"
                /\ outputFile' = w.out
                /\ events' = events \cup {Event("complete", total_chunks - 1)}
                /\ trace' = Append(trace, ProgressEvent("complete", total_chunks - 1,
                                                        total_chunks, -1))
                /\ UNCHANGED err
    /\ UNCHANGED <<files, stateFile, tmpFile, memory, runs, called, saved, loaded,
                   seen, backend, unit, calls>>

WriteOutput ==
    \E r \in (IF write_output(functions, outputFile).raised THEN {FALSE} ELSE ObserverFaults) :
        /\ observer_raised' = r
        /\ IF _emit(r).propagated
           THEN /\ ENABLED WriteOutputReturned
                /\ pc' = "aborted"
                /\ err' = "callback error"
                /\ outputFile' = write_output(functions, outputFile).out
                /\ UNCHANGED <<files, stateFile, tmpFile, memory, history, backend, unit,
                               observed>>
           ELSE WriteOutputReturned

Next ==
    \/ Construct
    \/ Resume
    \/ Crash
    \/ Exit
    \/ RunStart
    \/ LoadState
    \/ SetTotal
    \/ SkipChunk
    \/ StartChunk
    \/ Iterate
    \/ Exhausted
    \/ MarkCompleted
    \/ SaveDump
    \/ SaveRename
    \/ WriteOutput

Spec == Init /\ [][Next]_vars

\* The same program with a backend that answers equal prompts equally, on a
\* disk with no checkpoint.
InitDet == Init0 /\ det = TRUE /\ observer = "returns" /\ stateFile = NoFile /\ NoCall

SpecDet == InitDet /\ [][Next]_vars

\* The same program with an observer that may raise on any event, on a disk
\* with no checkpoint.
InitObserver ==
    Init0 /\ det = FALSE /\ observer = "raises" /\ stateFile = NoFile /\ NoCall

SpecObserver == InitObserver /\ [][Next]_vars

(***************************************************************************)
(* The output generator on its own: a process resumed from a checkpoint    *)
(* written after the only chunk of b.jsonl, holding any list of accepted   *)
(* functions, has skipped the chunk and is about to write the output, at a *)
(* path where an earlier run may have left a file.                         *)
(***************************************************************************)
MergePool == {Fn("f", "ok"), Fn("g", "ok"), Fn("f", "tryimp"), Fn("clean_data", "ok"),
              Fn("h", "bump")}

Lists(S, n) == UNION {[1..k -> S] : k \in 0..n}

InitMerge ==
    /\ files = [p \in Paths |-> ShortFile]
    /\ argv = Config("b.jsonl", 2, 0, TRUE, TRUE)
    /\ \E fns \in Lists(MergePool, MaxFunctions + 1) :
          /\ stateFile = CheckpointDoc(STATE_VERSION, "b.jsonl", 2, 0, 1, fns)
          /\ functions = fns
    /\ loaded = stateFile
    /\ seen = stateFile
    /\ tmpFile = NoFile
    /\ outputFile \in {NoOutput, OutputDoc(<<>>), OutputDoc(<<Fn("g", "ok")>>)}
    /\ pc = "loop"
    /\ err = ""
    /\ cfg = Config("b.jsonl", 2, DEFAULT_MAX_ITERATIONS, TRUE, TRUE)
    /\ last_completed_chunk = 0
    /\ total_chunks = 1
    /\ chunks = chunk_file(Suffix("b.jsonl"), ShortFile, 2)
    /\ idx = 1
    /\ iteration = 0
    /\ error_feedback = NoFeedback
    /\ resumed = TRUE
    /\ runs = 1
    /\ events = {}
    /\ called = {}
    /\ saved = {}
    /\ memo = <<>>
    /\ det = FALSE
    /\ observer = "returns"
    /\ trace = <<>>
    /\ calls = <<>>
    /\ observer_raised = FALSE
    /\ NoCall

NextMerge ==
    \/ WriteOutput
    \/ Exit

SpecMerge == InitMerge /\ [][NextMerge]_vars

(***************************************************************************)
(* The pure functions on their own: no process runs, and a function is     *)
(* applied to arguments drawn from a bounded set.                          *)
(***************************************************************************)
pipeline == <<disk, pc, err, memory, history, backend, observed, observer_raised>>

Idle ==
    /\ files = [p \in Paths |-> ShortFile]
    /\ argv = Config("a.jsonl", 2, 0, TRUE, FALSE)
    /\ stateFile = NoFile
    /\ det = FALSE
    /\ observer = "returns"
    /\ Init0

Codes == {"ok", "raise2", "tryimp", "bump", "nodef", "nonstr", "syntax", "mainref", ""}

\* validate_function on any code, name and sample set.
ValidateCalls ==
    {[code |-> c, sample_data |-> sd, function_name |-> n, mode |-> "structured"] :
        c \in Codes, sd \in Lists({GoodRec, BadRec}, MAX_SAMPLES), n \in {"f", ""}}
    \cup {[code |-> c, sample_data |-> sd, function_name |-> n, mode |-> "text"] :
        c \in Codes, sd \in Lists({GoodRec, BadRec, BlankLine}, 2), n \in {"f", ""}}

InitValidate == returned = <<>> /\ call \in ValidateCalls /\ Idle

ValidateCall ==
    /\ returned = <<>>
    /\ returned' = <<[verdict |-> validate_function(call.code, call.sample_data,
                                                    call.function_name, call.mode),
                      invoked |-> validate_function_invoked(call.code, call.sample_data,
                                                            call.function_name, call.mode)]>>
    /\ UNCHANGED <<pipeline, call>>

NextValidate == ValidateCall

SpecValidate == InitValidate /\ [][NextValidate]_vars

\* One iteration of _process_chunk on any reply, over a chunk of records or a
\* chunk none of whose lines is a JSON object.
StepReplies ==
    {Reply("fault", "", "", ""), Reply("malformed", "", "", "")}
    \cup {Reply("analysis", st, IF c = "" THEN "" ELSE "f", c) :
            st \in StatusTexts, c \in Codes}

StepChunks == {<<GoodRec>>, <<GoodRec, BadRec>>, <<ScalarLine, BadRec>>,
               <<ScalarLine, ScalarLine>>}

StepCalls ==
    [reply : StepReplies, chunk : StepChunks, fns : {<<>>, <<Fn("g", "ok")>>},
     validate_runtime : BOOLEAN]

InitStep == returned = <<>> /\ call \in StepCalls /\ Idle

StepCall ==
    /\ returned = <<>>
    /\ returned' = <<[parsed |-> parse_response(call.reply),
                      outcome |-> iteration_body(call.reply, call.chunk, 0, call.fns,
                                                 call.validate_runtime)]>>
    /\ UNCHANGED <<pipeline, call>>

NextStep == StepCall

SpecStep == InitStep /\ [][NextStep]_vars

\* chunk_file, called twice on a file of any of the four kinds.
Text(n, blanks) == [k \in 1..n |-> IF k <= blanks THEN BlankLine ELSE Char]

TextPool == {Text(CHARS_PER_ITEM, 0), Text(CHARS_PER_ITEM + 1, 0),
             Text(2 * CHARS_PER_ITEM, CHARS_PER_ITEM), Text(MaxLines, MaxLines)}

ChunkCalls ==
    {[suffix |-> ".jsonl", content |-> c, chunk_size |-> n] :
        c \in Lists({GoodRec, BadRec, BlankLine}, MaxLines), n \in 1..MaxLines}
    \cup {[suffix |-> ".csv", content |-> <<HeaderRow>> \o c, chunk_size |-> n] :
        c \in Lists({GoodRec, BadRec, BlankLine}, MaxLines), n \in 1..MaxLines}
    \cup {[suffix |-> ".json", content |-> c, chunk_size |-> n] :
        c \in Lists({GoodRec, BadRec}, MaxLines) \cup {<<ObjectDoc>>}, n \in 1..MaxLines}
    \cup {[suffix |-> ".txt", content |-> c, chunk_size |-> n] :
        c \in TextPool, n \in 1..MaxLines}

InitChunk == returned = <<>> /\ call \in ChunkCalls /\ Idle

ChunkCall ==
    /\ Len(returned) < 2
    /\ returned' = Append(returned, chunk_file(call.suffix, call.content, call.chunk_size))
    /\ UNCHANGED <<pipeline, call>>

NextChunk == ChunkCall

SpecChunk == InitChunk /\ [][NextChunk]_vars

\* The resume command on any state file.
ResumeDocs ==
    {NoFile, CorruptFile, PartialFile, NoPathFile}
    \cup {CheckpointDoc(ver, p, cs, l, t, fns) :
            ver \in {STATE_VERSION, STORE_STATE_VERSION}, p \in Paths, cs \in ChunkSizes,
            l \in -1..0, t \in 1..2, fns \in {<<>>, <<Fn("f", "ok")>>}}

ResumeCalls ==
    [state_file : ResumeDocs,
     run : {"", "ValueError: state file_path mismatch", "RetryError",
            "OutputValidationError"}]

InitResume == returned = <<>> /\ call \in ResumeCalls /\ Idle

ResumeCall ==
    /\ returned = <<>>
    /\ returned' = <<[raised |-> resume(call.state_file).raised,
                      exit |-> cmd_resume(call.state_file, call.run)]>>
    /\ UNCHANGED <<pipeline, call>>

NextResume == ResumeCall

SpecResume == InitResume /\ [][NextResume]_vars

(***************************************************************************)
(* cli.py: the generate, analyze and resume commands.  A command is given  *)
(* the path of its input (generate, analyze) or state file (resume) and a  *)
(* provider; raised is the exception that leaves DataCleaner(...),         *)
(* DataCleaner.resume(...) or run() ("": none).                            *)
(***************************************************************************)
Commands == {"generate", "analyze", "resume"}
Providers == {"mlx", "openai", "other"}

\* create_backend: the backend, or SystemExit(2) for an unknown provider or a
\* provider whose package cannot be imported.
create_backend(provider, importable) ==
    IF provider \in {"mlx", "openai"} /\ importable
    THEN [exit |-> 0, backend |-> provider]
    ELSE [exit |-> 2, backend |-> ""]

\* The except clauses of a command.
CommandExit(command, raised) ==
    CASE raised = "" -> 0
      [] raised = "FileNotFoundError" -> 1
      [] command = "resume" /\ ExitCode(raised) = 1 -> 1
      [] OTHER -> 3

\* A mutant: the backend is created before the file is looked for.
run_command_backend_first(command, present, provider, importable, raised) ==
    LET made == create_backend(provider, importable)
    IN  IF made.exit # 0 THEN [exit |-> made.exit, backends |-> 0, ran |-> FALSE]
        ELSE IF ~present THEN [exit |-> 1, backends |-> 1, ran |-> FALSE]
        ELSE [exit |-> CommandExit(command, raised), backends |-> 1, ran |-> TRUE]

\* cmd_generate, cmd_analyze, cmd_resume: the exit code, the number of
\* backends constructed, and whether the DataCleaner was reached.
run_command(command, present, provider, importable, raised) ==
    LET made == create_backend(provider, importable)
    IN  IF ~present THEN [exit |-> 1, backends |-> 0, ran |-> FALSE]
        ELSE IF made.exit # 0 THEN [exit |-> made.exit, backends |-> 0, ran |-> FALSE]
        ELSE [exit |-> CommandExit(command, raised), backends |-> 1, ran |-> TRUE]

CommandCalls ==
    [command : Commands, present : BOOLEAN, provider : Providers, importable : BOOLEAN,
     raised : {"", "FileNotFoundError", "ValueError: invalid state file JSON",
               "RetryError", "KeyError"}]

InitCommand == returned = <<>> /\ call \in CommandCalls /\ Idle

CommandCall ==
    /\ returned = <<>>
    /\ returned' = <<run_command(call.command, call.present, call.provider,
                                 call.importable, call.raised)>>
    /\ UNCHANGED <<pipeline, call>>

NextCommand == CommandCall

SpecCommand == InitCommand /\ [][NextCommand]_vars

(***************************************************************************)
(* apply.py: apply_cleaning on an input file and a functions file.  The    *)
(* functions file is missing (NoOutput), a module without clean_data       *)
(* (OtherModule) or a merged file.  The result is the exception raised     *)
(* ("": none), the events given to on_progress in order, and the output    *)
(* file: the cleaned records written, or NoOutput when it was not created. *)
(***************************************************************************)
OtherModule == [kind |-> "other", functions |-> <<>>]
TextRec == "text"

ApplyEvent(type, n) == [type |-> type, n |-> n]

\* The apply_progress events for the records 1..n.
Progress(n) == [k \in 1..n |-> ApplyEvent("apply_progress", k)]

\* The records a handler passes to clean_data, in order.
apply_records(suffix, content) ==
    IF suffix = ".txt" THEN <<TextRec>>
    ELSE IF suffix = ".json" /\ content = <<ObjectDoc>> THEN content
    ELSE IF suffix = ".csv"
         THEN IF content = <<>> THEN <<>>
              ELSE SelectSeq(Tail(content), LAMBDA row : row # BlankLine)
    ELSE SelectSeq(content, LAMBDA line : line # BlankLine)

\* The handler opens the output file before the first record (.jsonl, .csv
\* with a header) or after the last one (.json, .txt).
OpensOutputFirst(suffix, content) ==
    suffix = ".jsonl" \/ (suffix = ".csv" /\ content # <<>>)

\* A mutant: apply_start is emitted before the arguments are looked at.
apply_cleaning_start_first(present, suffix, content, module) ==
    IF ~present
    THEN [raised |-> "FileNotFoundError", events |-> <<ApplyEvent("apply_start", -1)>>,
          output |-> NoOutput]
    ELSE [raised |-> "", events |-> <<ApplyEvent("apply_start", -1)>>
                                    \o Progress(Len(apply_records(suffix, content)))
                                    \o <<ApplyEvent("apply_complete",
                                                    Len(apply_records(suffix, content)))>>,
          output |-> NoOutput]

apply_cleaning(present, suffix, content, module) ==
    IF ~present
    THEN [raised |-> "FileNotFoundError", events |-> <<>>, output |-> NoOutput]
    ELSE IF module.kind = "none"
    THEN [raised |-> "FileNotFoundError", events |-> <<>>, output |-> NoOutput]
    ELSE IF module.kind = "other"
    THEN [raised |-> "ImportError", events |-> <<>>, output |-> NoOutput]
    ELSE IF suffix \notin {".jsonl", ".csv", ".json", ".txt"}
    THEN [raised |-> "ValueError", events |-> <<>>, output |-> NoOutput]
    ELSE LET records == apply_records(suffix, content)
             cleaned == [k \in 1..Len(records) |-> clean_data(module, Record(records[k]))]
             failed == {k \in 1..Len(records) : cleaned[k].raised # ""}
             done == IF failed = {} THEN Len(records)
                     ELSE (CHOOSE k \in failed : \A j \in failed : k <= j) - 1
         IN  IF failed = {}
             THEN [raised |-> "",
                   events |-> <<ApplyEvent("apply_start", -1)>> \o Progress(done)
                              \o <<ApplyEvent("apply_complete", done)>>,
                   output |-> IF suffix = ".csv" /\ content = <<>> THEN NoOutput
                              ELSE OutputDoc(cleaned)]
             ELSE [raised |-> cleaned[done + 1].raised,
                   events |-> <<ApplyEvent("apply_start", -1)>> \o Progress(done),
                   output |-> IF OpensOutputFirst(suffix, content)
                              THEN OutputDoc(SubSeq(cleaned, 1, done))
                              ELSE NoOutput]

ApplyModules ==
    {NoOutput, OtherModule, OutputDoc(<<>>), OutputDoc(<<Fn("f", "ok")>>),
     OutputDoc(<<Fn("h", "bump"), Fn("f", "raise2")>>)}

ApplyCalls ==
    [present : BOOLEAN, suffix : {".jsonl", ".csv", ".json", ".txt", ".weird"},
     content : Lists({GoodRec, BadRec, BlankLine}, MaxLines), module : ApplyModules]

InitApply == returned = <<>> /\ call \in ApplyCalls /\ Idle

ApplyCall ==
    /\ returned = <<>>
    /\ returned' = <<apply_cleaning(call.present, call.suffix, call.content, call.module)>>
    /\ UNCHANGED <<pipeline, call>>

NextApply == ApplyCall

SpecApply == InitApply /\ [][NextApply]_vars

(***************************************************************************)
(* call_llm: backend.generate under retry(stop_after_attempt(3)).  The     *)
(* backend is given by what each of its calls does, in order: it returns   *)
(* a text or it raises.                                                    *)
(***************************************************************************)
\* A mutant: call_llm without the retry decorator.
call_llm_once(attempts) ==
    IF attempts[1] = "raises"
    THEN [raised |-> "RetryError", reply |-> 0, generate_calls |-> 1]
    ELSE [raised |-> "", reply |-> 1, generate_calls |-> 1]

\* The exception call_llm ends with ("": none), the call of generate whose
\* text it returns (0: none) and the number of calls of generate it made.
call_llm(attempts) ==
    LET returning == {k \in 1..STOP_AFTER_ATTEMPT : attempts[k] = "returns"}
        first == CHOOSE k \in returning : \A j \in returning : k <= j
    IN  IF returning = {}
        THEN [raised |-> "RetryError", reply |-> 0, generate_calls |-> STOP_AFTER_ATTEMPT]
        ELSE [raised |-> "", reply |-> first, generate_calls |-> first]

BackendCalls == [1..(STOP_AFTER_ATTEMPT + MaxExtraCalls) -> {"returns", "raises"}]

InitBackend == returned = <<>> /\ call \in BackendCalls /\ Idle

BackendCall ==
    /\ returned = <<>>
    /\ returned' = <<call_llm(call)>>
    /\ UNCHANGED <<pipeline, call>>

NextBackend == BackendCall

SpecBackend == InitBackend /\ [][NextBackend]_vars

(***************************************************************************)
(* Runs that are left to themselves.  The interpreter takes the next step  *)
(* of run() whenever there is one, and the backend answers every call      *)
(* (Iterate has a reply to take in every state with an iteration left), so *)
(* the steps of run() are weakly fair.  No process is killed, and a run     *)
(* that returned or raised is the last one.                                *)
(***************************************************************************)
RunStep ==
    \/ RunStart
    \/ LoadState
    \/ SetTotal
    \/ SkipChunk
    \/ StartChunk
    \/ Iterate
    \/ Exhausted
    \/ MarkCompleted
    \/ SaveDump
    \/ SaveRename
    \/ WriteOutput

NextRun ==
    \/ Construct
    \/ Resume
    \/ RunStep

SpecRun == Init /\ [][NextRun]_vars /\ WF_vars(RunStep)

(***************************************************************************)
(* Claims.                                                                 *)
(***************************************************************************)
Last(seq) == seq[Len(seq)]

RaisesOnSomeSample(code, chunk) ==
    \E k \in 1..Len(extract_sample_data(chunk, MAX_SAMPLES, "structured")) :
        CodeRaisesOn(code, extract_sample_data(chunk, MAX_SAMPLES, "structured")[k])

\* An iteration of _process_chunk appended a function to the accumulator.
Appended == pc = "iter" /\ pc' = "iter" /\ Len(functions') = Len(functions) + 1

\* C1 as stated: in every run, a proposed function that raises on one of the
\* samples extracted from the current chunk is never appended to functions.
C1_NeverAppendsRaising ==
    [][Appended => ~RaisesOnSomeSample(Last(functions').code, chunks[idx + 1])]_vars

\* C1, amended: in every run with validate_runtime enabled, a proposed
\* function that raises on one of the samples extracted from the current
\* chunk is never appended to functions.
C1_ValidationGate ==
    [][Appended /\ cfg.validate_runtime
         => ~RaisesOnSomeSample(Last(functions').code, chunks[idx + 1])]_vars

\* C1 witness: with validate_runtime enabled, a function that raises on the
\* second sample of the chunk was proposed and was not appended.
C1_Witness ==
    /\ pc = "iter"
    /\ cfg.validate_runtime
    /\ error_feedback = Feedback("validation", "runtime_error", 1)
    /\ functions = <<>>

(***************************************************************************)
(* The uninterrupted run, as a function of the caller's arguments and of   *)
(* the backend's answers: one process on a disk without a checkpoint, not  *)
(* killed.  "unknown" when it sends a prompt the backend has not answered  *)
(* in this behaviour.                                                      *)
(***************************************************************************)
RunResult(status, fns, out) == [status |-> status, functions |-> fns, output |-> out]

RECURSIVE uninterrupted_chunk(_, _, _, _, _)
uninterrupted_chunk(chunk, chunk_idx, fns, it, fb) ==
    LET prompt == build_prompt(build_context(fns), chunk, fb)
    IN  IF it >= argv.max_iterations THEN RunResult("ended", fns, NoOutput)
        ELSE IF prompt \notin DOMAIN memo THEN RunResult("unknown", fns, NoOutput)
        ELSE LET out == iteration_body(memo[prompt], chunk, chunk_idx, fns,
                                       argv.validate_runtime)
             IN  CASE out.kind = "raise" -> RunResult("aborted", fns, NoOutput)
                   [] out.kind = "return" -> RunResult("ended", fns, NoOutput)
                   [] OTHER -> uninterrupted_chunk(chunk, chunk_idx, out.functions,
                                                   it + 1, out.feedback)

RECURSIVE uninterrupted_from(_, _, _)
uninterrupted_from(all, k, fns) ==
    IF k >= Len(all)
    THEN LET w == write_output(fns, NoOutput)
         IN  IF w.raised THEN RunResult("aborted", fns, NoOutput)
             ELSE RunResult("done", fns, w.out)
    ELSE LET c == uninterrupted_chunk(all[k + 1], k, fns, 0, NoFeedback)
         IN  IF c.status = "ended" THEN uninterrupted_from(all, k + 1, c.functions)
             ELSE c

uninterrupted_run ==
    uninterrupted_from(chunk_file(Suffix(argv.file_path), files[argv.file_path],
                                  argv.chunk_size), 0, <<>>)

\* C2: with a deterministic backend, a run that was interrupted after a
\* checkpoint was written and then resumed from it ends with the same
\* function list, in the same order, and the same merged output as the
\* uninterrupted run over the same input and arguments.
C2_ResumeEquivalence ==
    (det /\ pc = "done" /\ loaded.kind = "ckpt" /\ uninterrupted_run.status # "unknown")
        => /\ uninterrupted_run.status = "done"
           /\ functions = uninterrupted_run.functions
           /\ outputFile = uninterrupted_run.output

\* C3: whatever step of a checkpoint save the process is killed at, the
\* state file is afterwards absent, or the complete previous checkpoint, or
\* the complete new one; a load never reads a partially written document.
C3_CheckpointAtomicity ==
    /\ [](stateFile.kind # "partial" /\ seen.kind # "partial")
    /\ [][stateFile' # stateFile
            => pc = "save_rename" /\ stateFile' = CurrentCheckpoint]_vars

\* C3 witness: a process was killed between opening the temporary file and
\* the rename, and a later process has loaded the checkpoint of the chunk
\* before.
C3_Witness ==
    /\ tmpFile.kind = "partial"
    /\ runs = 2
    /\ pc = "set_total"
    /\ loaded.kind = "ckpt"
    /\ loaded.version = STATE_VERSION
    /\ loaded = stateFile

\* The chunk index the process resumed after, -1 when it loaded no checkpoint.
LoadedK == IF loaded.kind = "ckpt" THEN loaded.last_completed_chunk ELSE -1

\* C4: a run that loads a checkpoint with last_completed_chunk = k calls the
\* backend and emits events for no chunk <= k; it processes the chunks
\* k+1 .. total_chunks-1 only, and when k = total_chunks-1 it makes no backend
\* call, writes the output and emits complete.
C4_ResumeSkipsCompleted ==
    loaded.kind = "ckpt" =>
        /\ \A c \in called : c > LoadedK
        /\ \A e \in events : e.type # "complete" => e.chunk_index > LoadedK
        /\ (pc = "done" => \A c \in 0..(total_chunks - 1) :
                              (c > LoadedK) <=> (Event("chunk_start", c) \in events))
        /\ (pc \in Ended /\ LoadedK = Len(chunks) - 1 =>
                /\ called = {}
                /\ pc = "done"
                /\ outputFile.kind = "file"
                /\ Event("complete", total_chunks - 1) \in events)

\* C5: in every state of a run, also of one that loaded a checkpoint,
\* last_completed_chunk is below total_chunks, in memory and in every
\* checkpoint written, and it never decreases.
C5_LastCompletedChunkInRange ==
    /\ [](/\ last_completed_chunk < total_chunks
          /\ \A doc \in {stateFile, tmpFile} :
                doc.kind = "ckpt" => doc.last_completed_chunk < doc.total_chunks)
    /\ [][pc' \notin {"idle", "constructed"}
            => last_completed_chunk' >= last_completed_chunk]_vars

\* C6: chunks are processed one at a time in increasing index order: while
\* chunk idx is being processed, every chunk before it was either skipped on
\* resume or has ended (chunk_done) and had _save_state return, with the
\* checkpoint on disk past it when a state file is configured; nothing of a
\* later chunk has happened; and no chunk is started twice in a run.
C6_SequentialChunks ==
    /\ [](pc \in {"iter", "mark", "save_dump", "save_rename"} =>
            /\ \A j \in 0..(idx - 1) :
                  \/ j <= LoadedK
                  \/ /\ Event("chunk_done", j) \in events
                     /\ j \in saved
                     /\ cfg.state_file =>
                           /\ stateFile.kind = "ckpt"
                           /\ stateFile.last_completed_chunk >= j
            /\ \A e \in events : e.chunk_index <= idx
            /\ \A c \in called : c <= idx)
    /\ [][pc = "loop" /\ pc' = "iter"
            => Event("chunk_start", idx') \notin events /\ idx' \notin called]_vars

\* C6 witness: the second chunk is being iterated after the first one was
\* processed by this run and its checkpoint saved.
C6_Witness ==
    /\ pc = "iter"
    /\ idx = 1
    /\ iteration = 1
    /\ LoadedK = -1
    /\ cfg.state_file
    /\ 0 \in called

\* C7: with a state file configured, once chunk i has ended (clean or
\* exhausted) and run() has saved, and until the first iteration of chunk i+1
\* (or the output, after the last chunk), the checkpoint on disk records
\* last_completed_chunk = i and a functions list equal to the accumulator.
C7_CheckpointAfterEveryChunk ==
    (/\ cfg.state_file
     /\ idx > 0
     /\ (idx - 1) \in saved
     /\ pc = "loop" \/ (pc = "iter" /\ iteration = 0 /\ idx \notin called))
        => /\ stateFile.kind = "ckpt"
           /\ stateFile.last_completed_chunk = idx - 1
           /\ stateFile.functions = functions
           /\ last_completed_chunk = idx - 1

\* C7 witness: the first chunk ended exhausted with a function accepted, and
\* the second chunk is about to start.
C7_Witness ==
    /\ cfg.state_file
    /\ pc = "iter"
    /\ idx = 1
    /\ iteration = 0
    /\ 0 \in saved
    /\ Event("function_generated", 0) \in events
    /\ LoadedK = -1

\* C8: when the file_path recorded in the checkpoint differs from the run's
\* file_path, the load raises before any backend call; the accumulator,
\* last_completed_chunk and the checkpoint file stay as they were and no
\* output is written.
C8_MismatchIsFatal ==
    (seen.kind = "ckpt" /\ seen.file_path # cfg.file_path)
        => /\ pc = "aborted"
           /\ err = "ValueError: state file_path mismatch"
           /\ called = {}
           /\ events = {}
           /\ functions = <<>>
           /\ last_completed_chunk = -1
           /\ stateFile = seen
           /\ outputFile = NoOutput

\* C8 witness: a run has loaded a checkpoint recorded for the other file.
C8_Witness ==
    /\ pc = "aborted"
    /\ seen.kind = "ckpt"
    /\ seen.file_path = "b.jsonl"
    /\ cfg.file_path = "a.jsonl"
    /\ seen.functions # <<>>

\* C9: a checkpoint whose version differs from the loader's STATE_VERSION is
\* rejected: no run adopts its functions, last_completed_chunk or
\* total_chunks.
C9_VersionMismatchRejected ==
    /\ loaded.kind = "ckpt" => loaded.version = STATE_VERSION
    /\ pc = "constructed" /\ stateFile.kind = "ckpt" /\ stateFile.version # STATE_VERSION
          => functions = <<>> /\ last_completed_chunk = -1

\* C10: a backend call whose every retry attempt fails does not abort the
\* run: run() never ends with the RetryError of call_llm.
C10_TransportFaultDoesNotAbort ==
    ~(pc = "aborted" /\ err = "RetryError")

\* The chunk that ended last ended exhausted: chunk_done is the last event and
\* no call made for the chunk came back clean.
ExhaustedChunk ==
    /\ trace # <<>>
    /\ Last(trace).type = "chunk_done"
    /\ calls = <<>> \/ Last(calls).status # "clean"

\* C11: a chunk that uses up max_iterations without a clean status ends
\* without raising: chunk_done is emitted for it, run() marks it completed and
\* saves (the checkpoint on disk records it when a state file is configured),
\* and the next chunk, if there is one, is started.
C11_ExhaustedIsNotFatal ==
    /\ [][(pc = "iter" /\ iteration >= cfg.max_iterations /\ pc' # "idle")
            => /\ pc' = "mark"
               /\ err' = ""
               /\ trace' = Append(trace, ProgressEvent("chunk_done", idx, total_chunks, -1))
               /\ ExhaustedChunk']_vars
    /\ [](ExhaustedChunk =>
            /\ pc \in {"mark", "save_dump", "save_rename", "loop", "aborted"}
            /\ err = "" \/ (err = "OutputValidationError" /\ idx >= Len(chunks))
            /\ pc \in {"loop", "aborted"} =>
                  /\ idx = Last(trace).chunk_index + 1
                  /\ last_completed_chunk = Last(trace).chunk_index
                  /\ Last(trace).chunk_index \in saved
                  /\ cfg.state_file =>
                        /\ stateFile.kind = "ckpt"
                        /\ stateFile.last_completed_chunk = Last(trace).chunk_index)
    /\ [][(ExhaustedChunk /\ pc \in {"mark", "save_dump", "save_rename"} /\ pc' # "idle")
            => pc' \in {"save_dump", "save_rename", "loop"}]_vars
    /\ [][(ExhaustedChunk /\ pc = "loop" /\ idx < Len(chunks) /\ pc' # "idle")
            => /\ pc' = "iter"
               /\ Last(trace') = ProgressEvent("chunk_start", idx, total_chunks, -1)]_vars

\* C11 witness: the first of two chunks ended exhausted after a ParseError,
\* its checkpoint is on disk and the second chunk is about to start.
C11_Witness ==
    /\ ExhaustedChunk
    /\ pc = "loop"
    /\ idx = 1
    /\ Len(chunks) = 2
    /\ calls # <<>>
    /\ Last(calls).parse_error
    /\ cfg.state_file
    /\ stateFile.last_completed_chunk = 0

\* The last backend call made for the current chunk came back clean.
CleanCall == calls # <<>> /\ Last(calls).status = "clean"

\* C12: the iteration whose parsed response has status clean ends the chunk
\* with chunk_done and appends nothing, also when the response carries code;
\* no further backend call is made for that chunk; a chunk whose first
\* response is clean has had exactly one call.
C12_CleanStopsTheChunk ==
    /\ [][(calls' # calls /\ calls' # <<>> /\ Last(calls').status = "clean")
            => /\ pc' = "mark"
               /\ functions' = functions
               /\ Last(trace') = ProgressEvent("chunk_done", idx, total_chunks, -1)]_vars
    /\ [](CleanCall => pc # "iter" /\ (calls[1].status = "clean" => Len(calls) = 1))
    /\ [][(CleanCall /\ pc' # "idle")
            => \/ calls' = calls /\ functions' = functions
               \/ calls' = <<>> /\ pc' = "iter" /\ idx' > Last(calls).chunk_index]_vars

\* C12 witness: the only chunk's first response was clean and carried code;
\* the run ended after one call with no function.
C12_Witness ==
    /\ pc = "done"
    /\ Len(calls) = 1
    /\ calls[1].status = "clean"
    /\ calls[1].proposed
    /\ functions = <<>>
    /\ outputFile = OutputDoc(<<>>)

\* C13: the prompt of iteration j >= 1 of a chunk carries a corrective note
\* iff iteration j-1 of that chunk ended in a ParseError or a validation
\* failure, and the note is that failure's diagnostic; the prompt of a chunk's
\* first iteration carries none.
C13_FeedbackFollowsFailure ==
    [][(calls' # calls /\ calls' # <<>>)
        => IF Len(calls') = 1
           THEN /\ Last(calls').iteration = 0
                /\ Last(calls').note = NoFeedback
           ELSE /\ calls' = Append(calls, Last(calls'))
                /\ Last(calls').chunk_index = Last(calls).chunk_index
                /\ Last(calls').iteration = Last(calls).iteration + 1
                /\ (Last(calls').note # NoFeedback)
                      <=> (Last(calls).parse_error \/ Last(calls).rejected)
                /\ Last(calls').note = Last(calls).diagnostic]_vars

\* C13 witness: the second call for a chunk carried the diagnostic of the
\* ParseError the first one ended in.
C13_Witness ==
    /\ Len(calls) = 2
    /\ calls[1].parse_error
    /\ calls[2].note.kind = "parse"

IsPrefix(a, b) == Len(a) <= Len(b) /\ SubSeq(b, 1, Len(a)) = a

\* C14: within a run the accumulator only grows at its end: every value it
\* takes has every earlier value of the run as a prefix.
C14_AppendOnly ==
    [][(pc # "idle" /\ pc' # "idle") => IsPrefix(functions, functions')]_vars

\* C14 witness: a run that loaded a checkpoint with a function has accepted
\* one more.
C14_Witness ==
    /\ pc = "iter"
    /\ loaded.kind = "ckpt"
    /\ loaded.functions # <<>>
    /\ Len(functions) = Len(loaded.functions) + 1

\* Index of the first entry of functions with the given name.
FirstWithName(name) ==
    CHOOSE k \in 1..Len(functions) :
        /\ functions[k].name = name
        /\ \A j \in 1..(k - 1) : functions[j].name # name

\* C15: for every list of accepted functions the merge retains each name
\* exactly once, the retained entry for a name is the first one accepted with
\* it, the retained entries keep their acceptance order, there is one warning
\* per dropped entry, and the composition written is the retained list.
C15_MergeKeepsFirst ==
    LET retained == deduplicate_functions(functions)
        warned == deduplicate_warnings(functions)
        dropped == SelectSeq([k \in 1..Len(functions) |-> k],
                             LAMBDA k : FirstWithName(functions[k].name) # k)
    IN  /\ \A k \in 1..Len(functions) :
              Cardinality({j \in 1..Len(retained) :
                              retained[j].name = functions[k].name}) = 1
        /\ \A j \in 1..Len(retained) :
              retained[j] = functions[FirstWithName(retained[j].name)]
        /\ \A i, j \in 1..Len(retained) :
              i < j => FirstWithName(retained[i].name) < FirstWithName(retained[j].name)
        /\ Len(warned) = Len(functions) - Len(retained)
        /\ warned = [j \in 1..Len(dropped) |-> functions[dropped[j]].name]
        /\ pc = "done" => outputFile = OutputDoc(retained)

\* C15 witness: of three accepted functions the third had the name of the
\* first; the output holds the first and the second.
C15_Witness ==
    /\ pc = "done"
    /\ Len(functions) = 3
    /\ functions[3].name = functions[1].name
    /\ functions[3] # functions[1]
    /\ functions[2].name # functions[1].name
    /\ outputFile = OutputDoc(SubSeq(functions, 1, 2))

\* C16: the entry point clean_data of the output calls every retained
\* function exactly once, in acceptance order: its k-th call reaches the k-th
\* retained function.
C16_EntryPointThreadsAll ==
    outputFile.kind = "file" =>
        /\ Len(clean_data_calls(outputFile)) = Len(outputFile.functions)
        /\ \A k \in 1..Len(outputFile.functions) : clean_data_calls(outputFile)[k] = k

\* C17 as stated: every run that ends normally with no accepted function,
\* also one over empty input, leaves an output whose clean_data returns its
\* argument unchanged.
C17_IdentityAlways ==
    (pc \in {"done", "returned"} /\ functions = <<>>)
        => /\ outputFile = OutputDoc(<<>>)
           /\ clean_data_calls(outputFile) = <<>>

\* C17, amended: every run over non-empty input that ends normally with no
\* accepted function leaves an output whose clean_data makes no call and
\* returns its argument; a run over empty input returns without writing one.
C17_IdentityWhenNoFunction ==
    /\ (pc = "done" /\ functions = <<>>)
          => /\ outputFile = OutputDoc(<<>>)
             /\ clean_data_calls(outputFile) = <<>>
    /\ pc = "returned" => chunks = <<>> /\ outputFile = NoOutput

\* C17 witness: a run whose chunks all ended without an accepted function has
\* written the output.
C17_Witness ==
    /\ pc = "done"
    /\ functions = <<>>
    /\ called # {}
    /\ Len(chunks) = 2
    /\ outputFile.kind = "file"

\* C18: when the merged output of the accumulator fails the whole-document
\* syntax check, the run does not abort: the output is written from the
\* functions that parse one by one, and the run ends with complete.
C18_FallbackWritesSubset ==
    [][(pc = "loop" /\ idx >= Len(chunks) /\ write_cleaning_file(functions).raised
            /\ pc' # "idle")
        => /\ pc' = "done"
           /\ outputFile' = OutputDoc(deduplicate_functions(SelectParsing(functions)))
           /\ Last(trace').type = "complete"]_vars

\* The events handed to the observer so far are well nested: chunk_start(i),
\* then iteration 0, 1, 2, ... each followed by at most one of
\* validation_failed and function_generated, then chunk_done(i); chunk indices
\* increase; complete comes last, after the output was written, with
\* chunk_index = total_chunks - 1.
WellNested ==
    \A p \in 1..Len(trace) :
        LET e == trace[p]
        IN  /\ e.total_chunks = total_chunks
            /\ CASE e.type = "chunk_start" ->
                       /\ e.chunk_index \in 0..(total_chunks - 1)
                       /\ \/ p = 1
                          \/ /\ trace[p - 1].type = "chunk_done"
                             /\ trace[p - 1].chunk_index < e.chunk_index
                 [] e.type = "iteration" ->
                       /\ p > 1
                       /\ trace[p - 1].chunk_index = e.chunk_index
                       /\ \/ trace[p - 1].type = "chunk_start" /\ e.iteration = 0
                          \/ /\ trace[p - 1].type = "iteration"
                             /\ e.iteration = trace[p - 1].iteration + 1
                          \/ /\ trace[p - 1].type \in {"validation_failed", "function_generated"}
                             /\ p > 2
                             /\ trace[p - 2].type = "iteration"
                             /\ e.iteration = trace[p - 2].iteration + 1
                 [] e.type \in {"validation_failed", "function_generated"} ->
                       /\ p > 1
                       /\ trace[p - 1].type = "iteration"
                       /\ trace[p - 1].chunk_index = e.chunk_index
                 [] e.type = "chunk_done" ->
                       /\ p > 1
                       /\ trace[p - 1].type \in {"chunk_start", "iteration",
                                                 "validation_failed", "function_generated"}
                       /\ trace[p - 1].chunk_index = e.chunk_index
                 [] e.type = "complete" ->
                       /\ p = Len(trace)
                       /\ p = 1 \/ trace[p - 1].type = "chunk_done"
                       /\ e.chunk_index = total_chunks - 1
                       /\ pc = "done"
                       /\ outputFile.kind = "file"
                 [] OTHER -> FALSE

\* C19 as stated: the events of a run are well nested and every run that ends
\* normally has emitted complete, once, as its last event.
C19_EventsOfEveryRun ==
    /\ WellNested
    /\ pc \in {"done", "returned"} => (trace # <<>> /\ Last(trace).type = "complete")

\* C19, amended: the events of a run are well nested and every run over
\* non-empty input that ends normally has emitted complete, once, as its last
\* event; a run over empty input emits no event.
C19_EventsWellNested ==
    /\ WellNested
    /\ pc = "done" => (trace # <<>> /\ Last(trace).type = "complete")
    /\ pc = "returned" => trace = <<>>

\* C19 witness: a run over two chunks that accepted a function has ended.
C19_Witness ==
    /\ pc = "done"
    /\ Len(chunks) = 2
    /\ loaded.kind = "none"
    /\ \E p \in 1..Len(trace) : trace[p].type = "function_generated"
    /\ \E p \in 1..Len(trace) : trace[p].type = "chunk_done" /\ trace[p].chunk_index = 1

\* C20: an exception of the observer is caught in _emit: no run ends with it,
\* and every step during which the observer raised is the step the program
\* takes when the observer returns: the same backend call, accumulator,
\* checkpoint and events.
C20_ObserverFaultContained ==
    /\ [](err # "callback error")
    /\ [][observer_raised'
            => (StartChunkReturned \/ IterateReturned \/ ExhaustedReturned
                    \/ WriteOutputReturned)]_vars

\* C20 witness: the observer raised on the events of an iteration that
\* accepted a function, and the chunk goes on.
C20_Witness ==
    /\ observer_raised
    /\ pc = "iter"
    /\ functions # <<>>
    /\ Last(trace).type = "function_generated"

\* C21: validate_function applied to an empty sample set returns ok, with no
\* message, for every code and every function name, and does not call the
\* function.
C21_EmptySampleIsValid ==
    (returned # <<>> /\ call.sample_data = <<>>)
        => /\ returned[1].verdict = Verdict(TRUE, NoFeedback)
           /\ returned[1].invoked = <<>>

\* C21 witness: the validator returned for an empty sample set and a code that
\* raises on a record.
C21_Witness ==
    /\ returned # <<>>
    /\ call.sample_data = <<>>
    /\ call.code = "raise2"
    /\ call.function_name = "f"
    /\ returned[1].verdict.ok

\* C22 as stated: when the proposed code parses but does not define the
\* function name, and the controller validates it, the iteration ends with the
\* "not found" diagnostic and leaves the accumulator as it was.
C22_UndefinedNameRejected ==
    (/\ returned # <<>>
     /\ call.validate_runtime
     /\ call.reply.kind = "analysis"
     /\ call.reply.code = "nodef"
     /\ returned[1].parsed.status # "clean")
        => /\ returned[1].outcome.feedback = Feedback("validation", "not_found", 0)
           /\ returned[1].outcome.functions = call.fns

\* C23: every function an iteration appends has passed the checks of
\* parse_response: a reply whose code has a syntax error or contains __main__
\* ends in a ParseError and leaves the accumulator as it was, with runtime
\* validation enabled or not.
C23_ParseGate ==
    returned # <<>>
        => /\ returned[1].outcome.functions # call.fns
                => /\ returned[1].outcome.functions
                        = Append(call.fns, Fn(call.reply.name, call.reply.code))
                   /\ CodeParses(call.reply.code)
                   /\ call.reply.code # "mainref"
           /\ (call.reply.kind = "analysis" /\ call.reply.code \in {"syntax", "mainref"})
                => /\ returned[1].parsed.err.kind = "parse"
                   /\ returned[1].outcome.kind = "continue"
                   /\ returned[1].outcome.feedback = returned[1].parsed.err
                   /\ returned[1].outcome.functions = call.fns

\* C23 witness: a reply with code that contains __main__, status
\* needs_more_work, was handled with runtime validation disabled.
C23_Witness ==
    /\ returned # <<>>
    /\ ~call.validate_runtime
    /\ call.reply = Reply("analysis", "needs_more_work", "f", "mainref")
    /\ returned[1].parsed.err = Feedback("parse", "main_import", 0)

\* C24 as stated: the status of every response parse_response accepts is
\* clean or needs_more_work.
C24_StatusIsCleanOrNeedsMoreWork ==
    (returned # <<>> /\ call.reply.kind # "fault" /\ returned[1].parsed.err.kind = "none")
        => returned[1].parsed.status \in {"clean", "needs_more_work"}

\* The records of a structured file, or of one of its chunks: the lines, rows
\* or items that are not blank, without the header row of a .csv text.
Records(suffix, lines) ==
    SelectSeq(IF suffix = ".csv" /\ lines # <<>> THEN Tail(lines) ELSE lines,
              LAMBDA line : line # BlankLine)

\* The records of the chunks, one chunk after the other.
RECURSIVE RecordsOfAll(_, _)
RecordsOfAll(suffix, chunkSeq) ==
    IF chunkSeq = <<>> THEN <<>>
    ELSE Records(suffix, Head(chunkSeq)) \o RecordsOfAll(suffix, Tail(chunkSeq))

\* C25 as stated: for a .csv, .jsonl or JSON-array input with at least one
\* record and a chunk size c >= 1, the chunks partition the records in input
\* order, every chunk holds between 1 and c records, and every chunk but the
\* last holds exactly c.
C25_ChunksPartitionRecords ==
    (/\ returned # <<>>
     /\ call.suffix \in {".csv", ".json", ".jsonl"}
     /\ call.content # <<ObjectDoc>>
     /\ Records(call.suffix, call.content) # <<>>)
        => LET chunkSeq == returned[1]
               held(k) == Len(Records(call.suffix, chunkSeq[k]))
           IN  /\ RecordsOfAll(call.suffix, chunkSeq) = Records(call.suffix, call.content)
               /\ \A k \in 1..Len(chunkSeq) : held(k) >= 1 /\ held(k) <= call.chunk_size
               /\ \A k \in 1..(Len(chunkSeq) - 1) : held(k) = call.chunk_size

OnBlankInput == pc # "idle" /\ cfg.file_path \in Paths /\ IsBlank(files[cfg.file_path])

\* C27: over an empty or whitespace-only input the chunker returns the empty
\* sequence and run() returns without work: it calls the backend for no
\* chunk, accepts no function, emits no event, writes no checkpoint and no
\* other file, and ends without an exception.
C27_BlankInputNoWork ==
    /\ [](OnBlankInput
            => /\ pc \in {"constructed", "returned"}
               /\ chunks = <<>>
               /\ called = {}
               /\ saved = {}
               /\ trace = <<>>
               /\ err = "")
    /\ [][(OnBlankInput /\ pc' # "idle")
            => /\ pc' = "returned"
               /\ chunks' = chunk_file(Suffix(cfg.file_path), files[cfg.file_path],
                                       cfg.chunk_size)
               /\ UNCHANGED <<disk, functions, last_completed_chunk>>]_vars

\* C27 witness: run() returned over the whitespace-only file, with a state
\* file configured and an earlier checkpoint on disk.
C27_Witness ==
    /\ pc = "returned"
    /\ files[cfg.file_path] = BlankFile
    /\ cfg.state_file
    /\ stateFile.kind = "ckpt"
    /\ err = ""

\* C28 as stated: for every merged file a run writes and every record,
\* clean_data applied twice gives what clean_data applied once gives.
C28_CleanDataIdempotent ==
    outputFile.kind = "file"
        => \A rec \in {GoodRec, BadRec} :
              LET once == clean_data(outputFile, Record(rec))
              IN  once.raised = "" => clean_data(outputFile, once) = once

\* C29: with validate_runtime disabled no iteration ends in a validation
\* failure, and every reply with a status other than clean whose code passes
\* parse_response has its function appended to the accumulator, whether or
\* not the function raises on the samples of the chunk.
C29_NoValidationWhenDisabled ==
    /\ []((pc # "idle" /\ ~cfg.validate_runtime)
            => /\ \A p \in 1..Len(trace) : trace[p].type # "validation_failed"
               /\ \A p \in 1..Len(calls) : ~calls[p].rejected)
    /\ [][(/\ pc = "iter"
           /\ ~cfg.validate_runtime
           /\ Len(calls') = Len(calls) + 1
           /\ Last(calls').status # "clean"
           /\ Last(calls').proposed
           /\ ~Last(calls').parse_error
           /\ err' = "")
            => /\ Len(functions') = Len(functions) + 1
               /\ functions' = Append(functions, Last(functions'))
               /\ Last(trace').type = "function_generated"]_vars

\* C29 witness: with validate_runtime disabled, the function just appended
\* raises on a sample of the current chunk.
C29_Witness ==
    /\ pc = "iter"
    /\ ~cfg.validate_runtime
    /\ calls # <<>>
    /\ Last(calls).proposed
    /\ Last(trace).type = "function_generated"
    /\ functions # <<>>
    /\ RaisesOnSomeSample(Last(functions).code, chunks[idx + 1])

\* C30 as stated: resume raises FileNotFoundError when there is no state
\* file and ValueError for every invalid state file, one that is not JSON or
\* one that lacks file_path, and the resume command exits with code 1 in both
\* cases.
C30_ResumeRejectsInvalidState ==
    returned # <<>>
        => /\ call.state_file.kind = "none"
                => returned[1].raised = "FileNotFoundError" /\ returned[1].exit = 1
           /\ call.state_file.kind \in {"corrupt", "partial", "nopath"}
                => /\ returned[1].raised = "ValueError: invalid state file JSON"
                   /\ returned[1].exit = 1

\* C31: for generate, analyze and resume, a missing input or state file ends
\* the command with exit code 1 before a backend is constructed, whatever the
\* provider is and whether or not its package can be imported.
C31_MissingFileBeforeBackend ==
    (returned # <<>> /\ ~call.present)
        => /\ returned[1].exit = 1
           /\ returned[1].backends = 0
           /\ ~returned[1].ran

\* C31 witness: resume returned for a missing state file and a provider that
\* does not exist.
C31_Witness ==
    /\ returned # <<>>
    /\ call.command = "resume"
    /\ ~call.present
    /\ call.provider = "other"
    /\ returned[1].exit = 1

EventsOf(type, chunk_index) ==
    {p \in 1..Len(trace) : trace[p].type = type /\ trace[p].chunk_index = chunk_index}

\* C33: while a chunk is processed the backend has been called for it once
\* per iteration used, at most max_iterations times; every call that does not
\* end the chunk or the run uses up exactly one iteration, whatever its
\* outcome; a chunk is left as exhausted after exactly max_iterations calls,
\* none of them clean (after no call when max_iterations = 0); and at most
\* max_iterations functions are accepted for a chunk.
C33_IterationBudget ==
    /\ [](pc \in {"iter", "mark"}
            => /\ Len(calls) <= cfg.max_iterations
               /\ Cardinality(EventsOf("iteration", idx)) = Len(calls)
               /\ Cardinality(EventsOf("function_generated", idx)) <= cfg.max_iterations
               /\ pc = "iter" => iteration = Len(calls))
    /\ [][(pc = "iter" /\ Len(calls') = Len(calls) + 1 /\ pc' = "iter")
            => iteration' = iteration + 1]_vars
    /\ [](ExhaustedChunk
            => /\ Len(calls) = cfg.max_iterations
               /\ \A p \in 1..Len(calls) : calls[p].status # "clean")

\* C33 witness: a chunk was left as exhausted after one call whose reply had
\* no function, with max_iterations = 1.
C33_Witness ==
    /\ ExhaustedChunk
    /\ pc = "mark"
    /\ cfg.max_iterations = 1
    /\ Len(calls) = 1
    /\ ~Last(calls).proposed
    /\ ~Last(calls).parse_error
    /\ Last(calls).status = "needs_more_work"

\* C34: one call_llm calls backend.generate at most 3 times: it returns the
\* text of the first call of generate that returns, having made no call after
\* it and only calls that raised before it, and it raises when the first 3
\* calls of generate all raise.
C34_BoundedRetry ==
    returned # <<>>
        => LET r == returned[1]
           IN  /\ r.generate_calls \in 1..3
               /\ r.raised = ""
                    => /\ r.reply = r.generate_calls
                       /\ call[r.reply] = "returns"
                       /\ \A k \in 1..(r.reply - 1) : call[k] = "raises"
               /\ r.raised # ""
                    => /\ r.generate_calls = 3
                       /\ \A k \in 1..3 : call[k] = "raises"
               /\ (\E k \in 1..3 : call[k] = "returns") => r.raised = ""

\* C34 witness: call_llm returned the text of the third call of generate,
\* after two calls that raised.
C34_Witness ==
    /\ returned # <<>>
    /\ call[1] = "raises"
    /\ call[2] = "raises"
    /\ call[3] = "returns"
    /\ returned[1] = [raised |-> "", reply |-> 3, generate_calls |-> 3]

\* The positions of run() before it returns or raises.
InRun == Running \cup {"mark"}

\* C35 as stated: every run eventually reaches DONE, with the output written
\* and complete emitted, or aborts with an error.
C35_DoneOrAbort == (pc \in InRun) ~> (pc \in {"done", "aborted"})

\* C35, amended: every run eventually returns or raises, and each chunk takes
\* at most max_iterations backend calls; a run over no chunk returns at once,
\* with no event and no output; every other run that returns has written the
\* output once, as its last step, after the checkpoint of the last chunk
\* (when checkpoints are kept), and emitted complete once, as the last event.
C35_RunTerminates ==
    /\ (pc \in InRun) ~> (pc \in Ended)
    /\ [](pc = "iter" => iteration <= cfg.max_iterations)
    /\ [](pc = "returned" => chunks = <<>> /\ trace = <<>> /\ called = {})
    /\ [][pc' = "done"
            => /\ pc = "loop"
               /\ chunks # <<>>
               /\ idx = Len(chunks)
               /\ last_completed_chunk >= Len(chunks) - 1
               /\ cfg.state_file
                    => /\ stateFile.kind = "ckpt"
                       /\ stateFile.last_completed_chunk = last_completed_chunk
                       /\ stateFile.functions = functions
               /\ outputFile'.kind = "file"
               /\ Cardinality({p \in 1..Len(trace') : trace'[p].type = "complete"}) = 1
               /\ Last(trace').type = "complete"]_vars
    /\ [][pc = "done" => pc' = "done" /\ outputFile' = outputFile]_vars

\* C35 witness: a run of two chunks, the last of which used up its
\* iterations, has returned after writing the output.
C35_Witness ==
    /\ pc = "done"
    /\ Len(chunks) = 2
    /\ cfg.max_iterations = 1
    /\ Len(calls) = 1
    /\ Last(calls).chunk_index = 1
    /\ Last(calls).status # "clean"
    /\ Last(trace).type = "complete"
    /\ outputFile.kind = "file"

\* C36: in structured mode with at least one sample, validate_function calls
\* the function on the samples in order, up to and including the first one it
\* raises on and on none after it; the failure names that sample's index; the
\* verdict is ok exactly when the code loads, defines the name and raises on no
\* sample.
C36_FirstRaisingSample ==
    (returned # <<>> /\ call.mode = "structured" /\ call.sample_data # <<>>)
        => LET r == returned[1]
               n == Len(r.invoked)
               loads == CodeParses(call.code) /\ CodeDefines(call.code)
                            /\ call.function_name # ""
               raising == {k \in 1..Len(call.sample_data) :
                              CodeRaisesOn(call.code, call.sample_data[k])}
           IN  /\ r.invoked = SubSeq(call.sample_data, 1, n)
               /\ \A k \in 1..(n - 1) : ~CodeRaisesOn(call.code, r.invoked[k])
               /\ (loads /\ raising # {})
                    => /\ CodeRaisesOn(call.code, r.invoked[n])
                       /\ \A k \in raising : n <= k
                       /\ r.verdict = Verdict(FALSE, Feedback("validation", "runtime_error",
                                                              n - 1))
               /\ (loads /\ raising = {}) => r.invoked = call.sample_data
               /\ ~loads => r.invoked = <<>>
               /\ r.verdict.ok <=> (loads /\ raising = {})

\* C36 witness: the validator returned for three samples of which the second
\* and the third make the function raise; it called the function on the first
\* two and named sample 1.
C36_Witness ==
    /\ returned # <<>>
    /\ call.mode = "structured"
    /\ call.code = "raise2"
    /\ call.function_name = "f"
    /\ call.sample_data = <<GoodRec, BadRec, BadRec>>
    /\ returned[1].invoked = <<GoodRec, BadRec>>
    /\ returned[1].verdict = Verdict(FALSE, Feedback("validation", "runtime_error", 1))

FromLoad == {"set_total", "loop", "iter", "mark", "save_dump", "save_rename", "done"}

C39_NoWriteBeforeValidation ==
    [][(pc = "loop" /\ idx >= Len(chunks) /\ pc' \in {"done", "aborted"})
        => LET first == write_cleaning_file(functions)
               valid == SelectParsing(functions)
               second == write_cleaning_file(valid)
           IN  /\ first.raised => path_after(first, outputFile) = outputFile
               /\ second.raised => path_after(second, outputFile) = outputFile
               /\ pc' = "aborted" => first.raised /\ second.raised /\ outputFile' = outputFile
               /\ (first.raised /\ valid = <<>>) => outputFile' = outputFile
               /\ outputFile' # outputFile
                    => /\ outputFile'.kind = "file"
                       /\ MergedParses(outputFile'.functions)
                       /\ outputFile' \in {OutputDoc(deduplicate_functions(functions)),
                                           OutputDoc(deduplicate_functions(valid))}]_vars

\* C39 witness: _write_output raised OutputValidationError over a list that
\* does not merge, and the file an earlier run left at the output path is as
\* it was.
C39_Witness ==
    /\ pc = "aborted"
    /\ err = "OutputValidationError"
    /\ ~MergedParses(deduplicate_functions(functions))
    /\ outputFile = OutputDoc(<<Fn("g", "ok")>>)

====
